---- MODULE Spec2Model ----
(***************************************************************************)
(* Background service worker of the Counterparty Signer extension          *)
(* (src/src/background/background.js): the in-memory wallet state, the      *)
(* table of pending signing requests and the message handlers.  A handler  *)
(* that awaits a platform operation (key derivation, encryption, signing)  *)
(* is split at that await: the part before it and the part after it are    *)
(* separate actions, and a suspended handler sits in a slot of inflight.   *)
(* Awaits that are settled in the same task (an already rejected promise,  *)
(* the caller's signaturePromise continuation) are folded into the action  *)
(* that settles them.  Array indices are 0-based as in the source.         *)
(***************************************************************************)
EXTENDS Integers, Sequences, FiniteSets, TLC

\* ---------------------------------------------------------------- bounds
MaxAccounts == 2
MaxCalls == 2
MaxInFlight == 2
MaxCommands == 2
MaxInputs == 2
MaxOutputs == 1
MaxScript == 1
MaxChars == 3

\* ------------------------------------------------------ program constants
MinPasswordLength == 8

\* ------------------------------------------------------------ input sets
NULL == [enc |-> "null", n |-> 0, len |-> 0]
NoPassword == ""
\* eight characters and seven: the two sides of MinPasswordLength
Passwords == {"passw0rd", "passw0r"}
SignRequests == {[requestId |-> "req_1", unsignedTx |-> "0100aa", details |-> "send"],
                 [requestId |-> "req_2", unsignedTx |-> "0100bb", details |-> "issuance"]}
RequestIds == {in.requestId : in \in SignRequests}
WifKey(n, len) == [enc |-> "wif", n |-> n, len |-> len]
HexKey(n) == [enc |-> "hex", n |-> n, len |-> 64]
ImportInputs == {[address |-> "1Alice", privateKey |-> WifKey(1, 51)],
                 [address |-> "1Bob", privateKey |-> WifKey(2, 52)],
                 [address |-> "1Bob", privateKey |-> WifKey(2, 50)],
                 [address |-> "", privateKey |-> WifKey(1, 51)]}
NewNames == {" Savings ", "  "}
SigningPasswords == {"passw0rd-A", "short"}
SigningImports == {[address |-> "1Alice", privateKey |-> WifKey(1, 51)],
                   [address |-> "1Bob", privateKey |-> WifKey(2, 50)]}

\* commands is a history variable: the wallet commands taken up so far, where a
\* specification records them.  page holds the promises of the page API, one
\* record per call.  lib is a call of a library function (BitcoinSigner,
\* Encryption, RIPEMD-160) taken by itself: its arguments, how far it has come
\* and what it returned.
VARIABLES isUnlocked, currentAccountIndex, accounts, currentPrivateKey,
          pendingSignRequests, calls, inflight, reply, storage, commands,
          page, lib

walletState == <<isUnlocked, currentAccountIndex, accounts, currentPrivateKey>>
vars == <<isUnlocked, currentAccountIndex, accounts, currentPrivateKey,
          pendingSignRequests, calls, inflight, reply, storage, commands,
          page, lib>>
\* no library call is looked at
NoCall == [fn |-> ""]

\* ------------------------------------------------------------ Encryption
\* a blob opens under the password it was made with; decrypt's promise settles
\* with the plaintext, or rejects ('Incorrect password or corrupted data').  A
\* stored blob may have been damaged since: "tampered" is base64 that no longer
\* authenticates, "malformed" is no base64 at all, and atob throws on it before
\* decrypt's try block is entered
BlobDamages == {"none", "tampered", "malformed"}
encrypt(data, password) == [pt |-> data, pw |-> password, damage |-> "none"]
Damaged(blob, damage) == [blob EXCEPT !.damage = damage]
DecryptFailed == [enc |-> "rejected", n |-> 0, len |-> 0]
DecodeFailed == [enc |-> "undecodable", n |-> 0, len |-> 0]
decrypt(blob, password) ==
    IF blob.damage = "malformed" THEN DecodeFailed
    ELSE IF blob.damage = "tampered" \/ blob.pw # password THEN DecryptFailed
    ELSE blob.pt
AtobMessage == "Failed to execute 'atob' on 'WorkerGlobalScope': The string to be decoded is not correctly encoded."

\* ---------------------------------------------------------- BitcoinSigner
\* 32 random bytes: a key that no account, no suspended handler and no unlocked
\* slot holds
KeysInUse ==
    {accounts[i].encryptedPrivateKey.pt.n : i \in 1..Len(accounts)}
    \cup {inflight[s].privateKey.n : s \in {t \in DOMAIN inflight : inflight[t].op \in {"create", "unlock", "switch"}}}
    \cup {currentPrivateKey.n}
generatePrivateKey == HexKey(CHOOSE n \in 1..(MaxAccounts + MaxInFlight + 1) : n \notin KeysInUse)
deriveAddress(privateKeyHex) == "bc1q" \o ToString(privateKeyHex.n)
decodeWIFSucceeds(wif) == wif.enc = "wif"
signTransaction(privateKeyWif, unsignedTx) == [key |-> privateKeyWif, tx |-> unsignedTx]
NoTx == [key |-> NULL, tx |-> ""]

\* --------------------------------------------------------------- helpers
\* inflight lists the suspended handlers in the order they were suspended; any
\* of them may be resumed next
Slots == 1..MaxInFlight
HasFreeSlot == Len(inflight) < MaxInFlight
Suspend(rec) == Append(inflight, rec)
Resume(s) == SubSeq(inflight, 1, s - 1) \o SubSeq(inflight, s + 1, Len(inflight))
Suspended(s, op) == s <= Len(inflight) /\ inflight[s].op = op

\* sendResponse({success, error}) and sendResponse({success: true, data})
NoData == [address |-> "", accountName |-> ""]
Reply(type, success, error) == [type |-> type, success |-> success, error |-> error, data |-> NoData]
ReplyData(type, data) == [type |-> type, success |-> TRUE, error |-> "", data |-> data]
NoReply == Reply("", TRUE, "")
accountName(n) == "Account " \o ToString(n)
\* String.prototype.trim on names padded with spaces
RECURSIVE TrimStart(_), TrimEnd(_)
TrimStart(name) ==
    IF Len(name) > 0 /\ SubSeq(name, 1, 1) = " " THEN TrimStart(SubSeq(name, 2, Len(name))) ELSE name
TrimEnd(name) ==
    IF Len(name) > 0 /\ SubSeq(name, Len(name), Len(name)) = " "
    THEN TrimEnd(SubSeq(name, 1, Len(name) - 1)) ELSE name
Trim(name) == TrimEnd(TrimStart(name))

NoResponse == [state |-> "none", signedTx |-> NoTx, error |-> ""]
Success(signedTx) == [state |-> "success", signedTx |-> signedTx, error |-> ""]
Failure(error) == [state |-> "failure", signedTx |-> NoTx, error |-> error]

\* request.resolve / request.reject followed by the caller's sendResponse:
\* a promise settles once, later resolve/reject calls have no effect
Settle(cs, i, response) ==
    IF cs[i].response.state = "none" THEN [cs EXCEPT ![i].response = response] ELSE cs

\* variant: the whole table is cleared
MapClear(m, k) == [x \in {} |-> m[x]]

MapSet(m, k, v) == [x \in DOMAIN m \cup {k} |-> IF x = k THEN v ELSE m[x]]
MapDelete(m, k) == [x \in DOMAIN m \ {k} |-> m[x]]

\* chrome.storage.local: the keys of the array layout and the two top-level keys
\* of the old single-account layout (present: the keys are there)
NoBlob == encrypt(NULL, NoPassword)
NoLegacy == [present |-> FALSE, address |-> "", encryptedPrivateKey |-> NoBlob]
EmptyStorage == [accounts |-> <<>>, currentAccountIndex |-> 0, legacy |-> NoLegacy]
\* chrome.storage.local.set({accounts, currentAccountIndex}): other keys stay
storageSet(accs, index) == [storage EXCEPT !.accounts = accs, !.currentAccountIndex = index]

Init ==
    /\ isUnlocked = FALSE
    /\ currentAccountIndex = 0
    /\ accounts = <<>>
    /\ currentPrivateKey = NULL
    /\ pendingSignRequests = [x \in {} |-> 0]
    /\ calls = <<>>
    /\ inflight = <<>>
    /\ reply = NoReply
    /\ commands = <<>>
    /\ page = <<>>
    /\ lib = NoCall
    /\ storage = EmptyStorage

\* --------------------------------------------------- loadWalletFromStorage
\* the worker starts on a wallet that an earlier session saved: accounts and
\* currentAccountIndex come from storage, the wallet is locked
StoredPassword == "passw0rd"
StoredAccounts ==
    [i \in 1..(MaxAccounts + 1) |->
        [name |-> accountName(i), address |-> "1Stored" \o ToString(i),
         encryptedPrivateKey |-> encrypt(WifKey(i, 52), StoredPassword)]]

\* the saved wallet as it was written, or with the blob of its second account
\* damaged in the store
StoredWallets ==
    {StoredAccounts}
    \cup {[StoredAccounts EXCEPT ![2].encryptedPrivateKey = Damaged(@, damage)] :
             damage \in BlobDamages \ {"none"}}

InitLoaded ==
    /\ isUnlocked = FALSE
    /\ currentAccountIndex = 0
    /\ accounts \in StoredWallets
    /\ currentPrivateKey = NULL
    /\ pendingSignRequests = [x \in {} |-> 0]
    /\ calls = <<>>
    /\ inflight = <<>>
    /\ reply = NoReply
    /\ commands = <<>>
    /\ page = <<>>
    /\ lib = NoCall
    /\ storage = [EmptyStorage EXCEPT !.accounts = accounts]

\* The load itself, split at its awaits.  The worker has started: its memory is
\* fresh, and the listener of onStartup has called loadWalletFromStorage, which
\* is suspended in its first storage.get.
LoadCall == [op |-> "load", result |-> [accounts |-> storage.accounts,
                                        currentAccountIndex |-> storage.currentAccountIndex]]
LegacyAccount == [present |-> TRUE, address |-> "1Legacy",
                  encryptedPrivateKey |-> encrypt(WifKey(1, 52), StoredPassword)]
StartupStores ==
    {EmptyStorage,
     [EmptyStorage EXCEPT !.accounts = SubSeq(StoredAccounts, 1, MaxAccounts),
                          !.currentAccountIndex = MaxAccounts - 1],
     [EmptyStorage EXCEPT !.legacy = LegacyAccount]}

InitStartup ==
    /\ isUnlocked = FALSE
    /\ currentAccountIndex = 0
    /\ accounts = <<>>
    /\ currentPrivateKey = NULL
    /\ pendingSignRequests = [x \in {} |-> 0]
    /\ calls = <<>>
    /\ storage \in StartupStores
    /\ inflight = <<LoadCall>>
    /\ reply = NoReply
    /\ commands = <<>>
    /\ page = <<>>
    /\ lib = NoCall

\* the browser is started again while the worker is idle
workerStart ==
    /\ inflight = <<>>
    /\ Len(storage.accounts) <= MaxAccounts
    /\ isUnlocked' = FALSE
    /\ currentAccountIndex' = 0
    /\ accounts' = <<>>
    /\ currentPrivateKey' = NULL
    /\ pendingSignRequests' = [x \in {} |-> 0]
    /\ inflight' = <<LoadCall>>
    /\ UNCHANGED <<storage, calls, reply>>

\* storage.get(['accounts', 'currentAccountIndex']) settled
loadWalletFromStorageGot(s) ==
    /\ Suspended(s, "load")
    /\ IF Len(inflight[s].result.accounts) > 0
       THEN /\ accounts' = inflight[s].result.accounts
            /\ currentAccountIndex' = inflight[s].result.currentAccountIndex
            /\ inflight' = Resume(s)
       ELSE /\ inflight' = [inflight EXCEPT ![s] = [op |-> "load_legacy", oldResult |-> storage.legacy]]
            /\ UNCHANGED <<accounts, currentAccountIndex>>
    /\ UNCHANGED <<isUnlocked, currentPrivateKey, storage, pendingSignRequests, calls, reply>>

\* storage.get(['encryptedPrivateKey', 'address']) settled: the old wallet becomes
\* 'Account 1' and is saved in the array form
loadWalletFromStorageMigrate(s) ==
    /\ Suspended(s, "load_legacy")
    /\ IF inflight[s].oldResult.present
       THEN /\ accounts' = <<[name |-> "Account 1",
                              address |-> inflight[s].oldResult.address,
                              encryptedPrivateKey |-> inflight[s].oldResult.encryptedPrivateKey]>>
            /\ currentAccountIndex' = 0
            /\ storage' = storageSet(accounts', 0)
            /\ inflight' = [inflight EXCEPT ![s] = [op |-> "load_remove"]]
       ELSE /\ inflight' = Resume(s)
            /\ UNCHANGED <<accounts, currentAccountIndex, storage>>
    /\ UNCHANGED <<isUnlocked, currentPrivateKey, pendingSignRequests, calls, reply>>

\* variant: the old keys are left in the store
loadWalletFromStorageRemoveKeepsLegacy(s) ==
    /\ Suspended(s, "load_remove")
    /\ inflight' = Resume(s)
    /\ UNCHANGED <<walletState, storage, pendingSignRequests, calls, reply>>

\* storage.set settled: storage.remove(['encryptedPrivateKey', 'address'])
loadWalletFromStorageRemove(s) ==
    /\ Suspended(s, "load_remove")
    /\ storage' = [storage EXCEPT !.legacy = NoLegacy]
    /\ inflight' = Resume(s)
    /\ UNCHANGED <<walletState, pendingSignRequests, calls, reply>>

\* -------------------------------------------------- handleGetWalletStatus
\* a secret as the text it is held in
KeyText(privateKey) == privateKey.enc \o ":" \o ToString(privateKey.n) \o ":" \o ToString(privateKey.len)

\* variant: the status carries the secret of the unlocked account
handleGetWalletStatusLeaksKey ==
    /\ reply' = ReplyData("GET_WALLET_STATUS",
                          [hasWallet |-> Len(accounts) > 0, isUnlocked |-> isUnlocked,
                           address |-> KeyText(currentPrivateKey), accountName |-> "",
                           currentAccountIndex |-> currentAccountIndex,
                           totalAccounts |-> Len(accounts)])
    /\ UNCHANGED <<walletState, storage, pendingSignRequests, calls, inflight>>

\* currentAccount?.address || null: "" stands for null
walletStatus ==
    [hasWallet |-> Len(accounts) > 0,
     isUnlocked |-> isUnlocked,
     address |-> IF currentAccountIndex < Len(accounts)
                 THEN accounts[currentAccountIndex + 1].address ELSE "",
     accountName |-> IF currentAccountIndex < Len(accounts)
                     THEN accounts[currentAccountIndex + 1].name ELSE "",
     currentAccountIndex |-> currentAccountIndex,
     totalAccounts |-> Len(accounts)]

handleGetWalletStatus ==
    /\ reply' = ReplyData("GET_WALLET_STATUS", walletStatus)
    /\ UNCHANGED <<walletState, storage, pendingSignRequests, calls, inflight>>

\* ------------------------------------------------------ handleGetAccounts
handleGetAccounts ==
    /\ reply' = ReplyData("GET_ACCOUNTS",
                          [accounts |-> [i \in 1..Len(accounts) |->
                              [index |-> i - 1, name |-> accounts[i].name,
                               address |-> accounts[i].address,
                               isCurrent |-> i - 1 = currentAccountIndex]]])
    /\ UNCHANGED <<walletState, storage, pendingSignRequests, calls, inflight>>

\* ------------------------------------------------------- handleLockWallet
\* variant: locking also drops the pending requests
handleLockWalletDropsRequests ==
    /\ currentPrivateKey' = NULL
    /\ isUnlocked' = FALSE
    /\ pendingSignRequests' = [x \in {} |-> 0]
    /\ reply' = Reply("LOCK_WALLET", TRUE, "")
    /\ UNCHANGED <<currentAccountIndex, accounts, calls, inflight, storage>>

\* variant: locking also goes back to the first account
handleLockWalletResetsIndex ==
    /\ currentPrivateKey' = NULL
    /\ isUnlocked' = FALSE
    /\ currentAccountIndex' = 0
    /\ reply' = Reply("LOCK_WALLET", TRUE, "")
    /\ UNCHANGED <<accounts, pendingSignRequests, calls, inflight, storage>>

handleLockWallet ==
    /\ currentPrivateKey' = NULL
    /\ isUnlocked' = FALSE
    /\ reply' = Reply("LOCK_WALLET", TRUE, "")
    /\ UNCHANGED <<currentAccountIndex, accounts, pendingSignRequests, calls, inflight, storage>>

\* ----------------------------------------------------- handleCreateWallet
PendingAdds == Cardinality({s \in DOMAIN inflight : inflight[s].op \in {"create", "import"}})
CanAdd == Len(accounts) + PendingAdds < MaxAccounts

\* variant: the length test is off by one
PasswordTooShortOffByOne(password) == password = "" \/ Len(password) < MinPasswordLength - 1

PasswordTooShort(password) == password = "" \/ Len(password) < MinPasswordLength

handleCreateWalletInvalid(password) ==
    /\ PasswordTooShort(password)
    /\ reply' = Reply("CREATE_WALLET", FALSE, "Password must be at least 8 characters")
    /\ UNCHANGED <<walletState, storage, pendingSignRequests, calls, inflight>>

\* up to the awaits of deriveAddress and Encryption.encrypt
handleCreateWalletStart(password) ==
    /\ ~PasswordTooShort(password)
    /\ CanAdd /\ HasFreeSlot
    /\ inflight' = Suspend([op |-> "create", privateKey |-> generatePrivateKey,
                            address |-> deriveAddress(generatePrivateKey),
                            encryptedPrivateKey |-> encrypt(generatePrivateKey, password)])
    /\ UNCHANGED <<walletState, storage, pendingSignRequests, calls, reply>>

\* push of the new account, shared by create and import
pushAccount(h) ==
    /\ accounts' = Append(accounts, [name |-> accountName(Len(accounts) + 1),
                                     address |-> h.address,
                                     encryptedPrivateKey |-> h.encryptedPrivateKey])
    /\ currentAccountIndex' = Len(accounts') - 1
    /\ currentPrivateKey' = h.privateKey
    /\ isUnlocked' = TRUE

\* the push, then chrome.storage.local.set
AddAccount(h) ==
    /\ pushAccount(h)
    /\ storage' = storageSet(accounts', currentAccountIndex')

handleCreateWalletFinish(s) ==
    /\ Suspended(s, "create")
    /\ AddAccount(inflight[s])
    /\ inflight' = Resume(s)
    /\ reply' = ReplyData("CREATE_WALLET", [address |-> inflight[s].address,
                                            accountName |-> accountName(Len(accounts) + 1)])
    /\ UNCHANGED <<pendingSignRequests, calls>>

\* ----------------------------------------------------- handleImportWallet
\* variant: the list is not searched for the address
ImportErrorNoDuplicateCheck(address, privateKey, password) ==
    IF PasswordTooShort(password) THEN "Password must be at least 8 characters"
    ELSE IF address = "" THEN "Bitcoin address is required"
    ELSE IF privateKey.len # 51 /\ privateKey.len # 52 THEN "Invalid WIF private key format"
    ELSE ""

ImportError(address, privateKey, password) ==
    IF PasswordTooShort(password) THEN "Password must be at least 8 characters"
    ELSE IF address = "" THEN "Bitcoin address is required"
    ELSE IF privateKey.len # 51 /\ privateKey.len # 52 THEN "Invalid WIF private key format"
    ELSE IF \E i \in 1..Len(accounts) : accounts[i].address = address
         THEN "This account already exists"
    ELSE ""

handleImportWalletInvalid(address, privateKey, password) ==
    /\ ImportError(address, privateKey, password) # ""
    /\ reply' = Reply("IMPORT_WALLET", FALSE, ImportError(address, privateKey, password))
    /\ UNCHANGED <<walletState, storage, pendingSignRequests, calls, inflight>>

\* up to the await of Encryption.encrypt
handleImportWalletStart(address, privateKey, password) ==
    /\ ImportError(address, privateKey, password) = ""
    /\ CanAdd /\ HasFreeSlot
    /\ inflight' = Suspend([op |-> "import", privateKey |-> privateKey, address |-> address,
                            encryptedPrivateKey |-> encrypt(privateKey, password)])
    /\ UNCHANGED <<walletState, storage, pendingSignRequests, calls, reply>>

handleImportWalletFinish(s) ==
    /\ Suspended(s, "import")
    /\ AddAccount(inflight[s])
    /\ inflight' = Resume(s)
    /\ reply' = ReplyData("IMPORT_WALLET", [address |-> inflight[s].address,
                                            accountName |-> accountName(Len(accounts) + 1)])
    /\ UNCHANGED <<pendingSignRequests, calls>>

\* ----------------------------------------------------- handleUnlockWallet
\* no account, or accounts[currentAccountIndex] undefined: thrown before the await
handleUnlockWalletNoAccount(password) ==
    /\ currentAccountIndex >= Len(accounts)
    /\ reply' = Reply("UNLOCK_WALLET", FALSE, "Incorrect password or corrupted data")
    /\ UNCHANGED <<walletState, storage, pendingSignRequests, calls, inflight>>

\* atob throws in Encryption.decrypt: the await settles without suspending
handleUnlockWalletMalformed(password) ==
    /\ currentAccountIndex < Len(accounts)
    /\ decrypt(accounts[currentAccountIndex + 1].encryptedPrivateKey, password) = DecodeFailed
    /\ reply' = Reply("UNLOCK_WALLET", FALSE, "Incorrect password or corrupted data")
    /\ UNCHANGED <<walletState, storage, pendingSignRequests, calls, inflight>>

\* up to the await of Encryption.decrypt
handleUnlockWalletStart(password) ==
    /\ currentAccountIndex < Len(accounts)
    /\ decrypt(accounts[currentAccountIndex + 1].encryptedPrivateKey, password) # DecodeFailed
    /\ HasFreeSlot
    /\ inflight' = Suspend([op |-> "unlock",
                            privateKey |-> decrypt(accounts[currentAccountIndex + 1].encryptedPrivateKey,
                                                   password)])
    /\ UNCHANGED <<walletState, storage, pendingSignRequests, calls, reply>>

handleUnlockWalletFinish(s) ==
    /\ Suspended(s, "unlock")
    /\ inflight' = Resume(s)
    /\ IF inflight[s].privateKey # DecryptFailed
       THEN /\ currentPrivateKey' = inflight[s].privateKey
            /\ isUnlocked' = TRUE
            /\ reply' = Reply("UNLOCK_WALLET", TRUE, "")
       ELSE /\ reply' = Reply("UNLOCK_WALLET", FALSE, "Incorrect password or corrupted data")
            /\ UNCHANGED <<currentPrivateKey, isUnlocked>>
    /\ UNCHANGED <<currentAccountIndex, accounts, pendingSignRequests, calls, storage>>

\* ----------------------------------------------------- handleSwitchAccount
IndexInvalid(accountIndex) == accountIndex < 0 \/ accountIndex >= Len(accounts)

handleSwitchAccountInvalid(accountIndex) ==
    /\ IndexInvalid(accountIndex)
    /\ reply' = Reply("SWITCH_ACCOUNT", FALSE, "Invalid account index")
    /\ UNCHANGED <<walletState, storage, pendingSignRequests, calls, inflight>>

\* without a password: the switch is made before the await of storage.set
handleSwitchAccountLocked(accountIndex) ==
    /\ ~IndexInvalid(accountIndex)
    /\ HasFreeSlot
    /\ currentPrivateKey' = NULL
    /\ isUnlocked' = FALSE
    /\ currentAccountIndex' = accountIndex
    /\ storage' = [storage EXCEPT !.currentAccountIndex = accountIndex]
    /\ inflight' = Suspend([op |-> "switch_save", accountIndex |-> accountIndex])
    /\ UNCHANGED <<accounts, pendingSignRequests, calls, reply>>

\* with a password, atob throws in Encryption.decrypt: the catch block answers
\* with the message of the error it caught
handleSwitchAccountMalformed(accountIndex, password) ==
    /\ ~IndexInvalid(accountIndex)
    /\ password # NoPassword
    /\ decrypt(accounts[accountIndex + 1].encryptedPrivateKey, password) = DecodeFailed
    /\ reply' = Reply("SWITCH_ACCOUNT", FALSE, AtobMessage)
    /\ UNCHANGED <<walletState, storage, pendingSignRequests, calls, inflight>>

\* with a password: up to the await of Encryption.decrypt
handleSwitchAccountStart(accountIndex, password) ==
    /\ ~IndexInvalid(accountIndex)
    /\ password # NoPassword
    /\ decrypt(accounts[accountIndex + 1].encryptedPrivateKey, password) # DecodeFailed
    /\ HasFreeSlot
    /\ inflight' = Suspend([op |-> "switch", accountIndex |-> accountIndex,
                            privateKey |-> decrypt(accounts[accountIndex + 1].encryptedPrivateKey,
                                                   password)])
    /\ UNCHANGED <<walletState, storage, pendingSignRequests, calls, reply>>

\* decrypt settled: the switch is made, then the handler awaits storage.set
handleSwitchAccountDecrypted(s) ==
    /\ Suspended(s, "switch")
    /\ IF inflight[s].privateKey # DecryptFailed
       THEN /\ currentPrivateKey' = inflight[s].privateKey
            /\ isUnlocked' = TRUE
            /\ currentAccountIndex' = inflight[s].accountIndex
            /\ inflight' = [inflight EXCEPT ![s] = [op |-> "switch_save",
                                                   accountIndex |-> inflight[s].accountIndex]]
            /\ storage' = [storage EXCEPT !.currentAccountIndex = inflight[s].accountIndex]
            /\ UNCHANGED reply
       ELSE /\ reply' = Reply("SWITCH_ACCOUNT", FALSE, "Incorrect password or corrupted data")
            /\ inflight' = Resume(s)
            /\ UNCHANGED <<currentPrivateKey, isUnlocked, currentAccountIndex, storage>>
    /\ UNCHANGED <<accounts, pendingSignRequests, calls>>

\* storage.set settled: accounts[accountIndex] is read again for the response
handleSwitchAccountFinish(s) ==
    /\ Suspended(s, "switch_save")
    /\ inflight' = Resume(s)
    /\ reply' = IF inflight[s].accountIndex < Len(accounts)
                THEN Reply("SWITCH_ACCOUNT", TRUE, "")
                ELSE Reply("SWITCH_ACCOUNT", FALSE, "Cannot read properties of undefined (reading 'address')")
    /\ UNCHANGED <<walletState, storage, pendingSignRequests, calls>>

\* ----------------------------------------------------- handleRenameAccount
\* variant: the name is tested before it is trimmed only
RenameErrorUntrimmed(accountIndex, newName) ==
    IF IndexInvalid(accountIndex) THEN "Invalid account index"
    ELSE IF newName = "" THEN "Account name cannot be empty"
    ELSE ""

RenameError(accountIndex, newName) ==
    IF IndexInvalid(accountIndex) THEN "Invalid account index"
    ELSE IF newName = "" \/ Trim(newName) = "" THEN "Account name cannot be empty"
    ELSE ""

handleRenameAccount(accountIndex, newName) ==
    /\ IF RenameError(accountIndex, newName) # ""
       THEN /\ reply' = Reply("RENAME_ACCOUNT", FALSE, RenameError(accountIndex, newName))
            /\ UNCHANGED <<accounts, storage>>
       ELSE /\ accounts' = [accounts EXCEPT ![accountIndex + 1].name = Trim(newName)]
            /\ storage' = [storage EXCEPT !.accounts = accounts']
            /\ reply' = Reply("RENAME_ACCOUNT", TRUE, "")
    /\ UNCHANGED <<isUnlocked, currentAccountIndex, currentPrivateKey,
                   pendingSignRequests, calls, inflight>>

\* ----------------------------------------------------- handleDeleteAccount
\* variant: the last account can be deleted
DeleteErrorAllowsLast(accountIndex) ==
    IF IndexInvalid(accountIndex) THEN "Invalid account index" ELSE ""

DeleteError(accountIndex) ==
    IF Len(accounts) = 1 THEN "Cannot delete the only account"
    ELSE IF IndexInvalid(accountIndex) THEN "Invalid account index"
    ELSE ""

Splice(seq, index) == SubSeq(seq, 1, index) \o SubSeq(seq, index + 2, Len(seq))
Max(a, b) == IF a >= b THEN a ELSE b

handleDeleteAccountInvalid(accountIndex) ==
    /\ DeleteError(accountIndex) # ""
    /\ reply' = Reply("DELETE_ACCOUNT", FALSE, DeleteError(accountIndex))
    /\ UNCHANGED <<walletState, storage, pendingSignRequests, calls, inflight>>

handleDeleteAccountKeepsKey(accountIndex) ==
    /\ DeleteError(accountIndex) = ""
    /\ accounts' = Splice(accounts, accountIndex)
    /\ currentAccountIndex' = IF currentAccountIndex >= accountIndex
                              THEN Max(0, currentAccountIndex - 1)
                              ELSE currentAccountIndex
    /\ isUnlocked' = FALSE
    /\ storage' = storageSet(accounts', currentAccountIndex')
    /\ reply' = Reply("DELETE_ACCOUNT", TRUE, "")
    /\ UNCHANGED <<currentPrivateKey, pendingSignRequests, calls, inflight>>

\* variant: the current index is not adjusted
handleDeleteAccountNoShift(accountIndex) ==
    /\ DeleteError(accountIndex) = ""
    /\ accounts' = Splice(accounts, accountIndex)
    /\ currentAccountIndex' = Max(0, IF currentAccountIndex >= Len(accounts')
                                     THEN Len(accounts') - 1 ELSE currentAccountIndex)
    /\ currentPrivateKey' = NULL
    /\ isUnlocked' = FALSE
    /\ storage' = storageSet(accounts', currentAccountIndex')
    /\ reply' = Reply("DELETE_ACCOUNT", TRUE, "")
    /\ UNCHANGED <<pendingSignRequests, calls, inflight>>

handleDeleteAccount(accountIndex) ==
    /\ DeleteError(accountIndex) = ""
    /\ accounts' = Splice(accounts, accountIndex)
    /\ currentAccountIndex' = IF currentAccountIndex >= accountIndex
                              THEN Max(0, currentAccountIndex - 1)
                              ELSE currentAccountIndex
    /\ currentPrivateKey' = NULL
    /\ isUnlocked' = FALSE
    /\ storage' = storageSet(accounts', currentAccountIndex')
    /\ reply' = Reply("DELETE_ACCOUNT", TRUE, "")
    /\ UNCHANGED <<pendingSignRequests, calls, inflight>>

\* -------------------------------------------- handleSignTransactionRequest
\* one record per SIGN_TRANSACTION message: its response channel (response), whether
\* chrome.windows.create was called for it (window), the page promise's timer
\* (timedOut), and two history fields: the number of APPROVE_SIGNING handlers that
\* looked the request up (approvals) and the number of calls of
\* BitcoinSigner.signTransaction on its unsignedTx (signings)
Call(requestId, response, window) ==
    [requestId |-> requestId, response |-> response, window |-> window,
     timedOut |-> FALSE, approvals |-> 0, signings |-> 0]

\* variant: the request is signed on arrival, without waiting for the user
handleSignTransactionRequestAutoSigns(requestId, unsignedTx, details) ==
    /\ Len(calls) < MaxCalls
    /\ IF ~isUnlocked
       THEN calls' = Append(calls, Call(requestId, Failure("Wallet is locked. Please unlock it first."), FALSE))
       ELSE calls' = Append(calls, Call(requestId, Success(signTransaction(currentPrivateKey, unsignedTx)), TRUE))
    /\ UNCHANGED <<walletState, storage, pendingSignRequests, inflight, reply>>

\* variant: the request is stored before the lock is looked at
handleSignTransactionRequestStoresFirst(requestId, unsignedTx, details) ==
    /\ Len(calls) < MaxCalls
    /\ calls' = Append(calls, Call(requestId, IF isUnlocked THEN NoResponse
                                              ELSE Failure("Wallet is locked. Please unlock it first."),
                                   isUnlocked))
    /\ pendingSignRequests' = MapSet(pendingSignRequests, requestId,
                                     [unsignedTx |-> unsignedTx, details |-> details,
                                      call |-> Len(calls) + 1])
    /\ UNCHANGED <<walletState, storage, inflight, reply>>

handleSignTransactionRequest(requestId, unsignedTx, details) ==
    /\ Len(calls) < MaxCalls
    /\ IF ~isUnlocked
       THEN /\ calls' = Append(calls, Call(requestId, Failure("Wallet is locked. Please unlock it first."), FALSE))
            /\ UNCHANGED pendingSignRequests
       ELSE /\ calls' = Append(calls, Call(requestId, NoResponse, TRUE))
            /\ pendingSignRequests' = MapSet(pendingSignRequests, requestId,
                                             [unsignedTx |-> unsignedTx, details |-> details,
                                              call |-> Len(calls) + 1])
    /\ UNCHANGED <<walletState, storage, inflight, reply>>

\* --------------------------------------------------- signTransactionLocally
\* the error thrown before the first await that suspends, "" when there is none
signTransactionLocallyError ==
    IF ~isUnlocked \/ currentPrivateKey = NULL THEN "Wallet is locked. Please unlock first."
    ELSE IF currentAccountIndex >= Len(accounts) THEN "Cannot read properties of undefined (reading 'address')"
    ELSE IF ~decodeWIFSucceeds(currentPrivateKey) THEN "Failed to sign transaction locally: Invalid WIF character"
    ELSE ""

\* BitcoinSigner.signTransaction is called iff the two checks before it pass
SignerInvoked ==
    /\ isUnlocked /\ currentPrivateKey # NULL
    /\ currentAccountIndex < Len(accounts)

\* ------------------------------------------------------- handleApproveSign
\* variant: the lookup's miss is not reported
handleApproveSignNotFoundSilent(requestId) ==
    /\ requestId \notin DOMAIN pendingSignRequests
    /\ reply' = Reply("APPROVE_SIGNING", TRUE, "")
    /\ UNCHANGED <<walletState, storage, pendingSignRequests, calls, inflight>>

handleApproveSignNotFound(requestId) ==
    /\ requestId \notin DOMAIN pendingSignRequests
    /\ reply' = Reply("APPROVE_SIGNING", FALSE, "Request not found")
    /\ UNCHANGED <<walletState, storage, pendingSignRequests, calls, inflight>>

Approved(cs, i) ==
    [cs EXCEPT ![i].approvals = @ + 1,
               ![i].signings = IF SignerInvoked THEN @ + 1 ELSE @]

\* signing throws before it suspends: the catch block rejects and deletes
handleApproveSignThrows(requestId) ==
    /\ requestId \in DOMAIN pendingSignRequests
    /\ signTransactionLocallyError # ""
    /\ LET request == pendingSignRequests[requestId]
       IN  calls' = Settle(Approved(calls, request.call), request.call,
                           Failure(signTransactionLocallyError))
    /\ pendingSignRequests' = MapDelete(pendingSignRequests, requestId)
    /\ reply' = Reply("APPROVE_SIGNING", FALSE, signTransactionLocallyError)
    /\ UNCHANGED <<walletState, storage, inflight>>

\* signing is under way: the handler is suspended in signInput
handleApproveSignStart(requestId) ==
    /\ requestId \in DOMAIN pendingSignRequests
    /\ signTransactionLocallyError = ""
    /\ HasFreeSlot
    /\ LET request == pendingSignRequests[requestId]
       IN  /\ calls' = Approved(calls, request.call)
           /\ inflight' = Suspend([op |-> "approve", requestId |-> requestId, request |-> request,
                                   signedTx |-> signTransaction(currentPrivateKey, request.unsignedTx)])
    /\ UNCHANGED <<walletState, storage, pendingSignRequests, reply>>

\* signing returned: resolve the captured request, delete the entry of requestId
handleApproveSignFinish(s) ==
    /\ Suspended(s, "approve")
    /\ calls' = Settle(calls, inflight[s].request.call, Success(inflight[s].signedTx))
    /\ pendingSignRequests' = MapDelete(pendingSignRequests, inflight[s].requestId)
    /\ inflight' = Resume(s)
    /\ reply' = Reply("APPROVE_SIGNING", TRUE, "")
    /\ UNCHANGED <<walletState, storage>>

\* the handler up to its first suspension, whichever way it goes
handleApproveSign(requestId) ==
    \/ handleApproveSignNotFound(requestId)
    \/ handleApproveSignThrows(requestId)
    \/ handleApproveSignStart(requestId)

\* -------------------------------------------------------- handleRejectSign
\* variant: the caller is rejected, the entry is left in the table
handleRejectSignKeepsEntry(requestId) ==
    /\ IF requestId \in DOMAIN pendingSignRequests
       THEN calls' = Settle(calls, pendingSignRequests[requestId].call,
                            Failure("User rejected transaction"))
       ELSE UNCHANGED calls
    /\ reply' = Reply("REJECT_SIGNING", TRUE, "")
    /\ UNCHANGED <<walletState, storage, pendingSignRequests, inflight>>

handleRejectSign(requestId) ==
    /\ IF requestId \in DOMAIN pendingSignRequests
       THEN /\ calls' = Settle(calls, pendingSignRequests[requestId].call,
                               Failure("User rejected transaction"))
            /\ pendingSignRequests' = MapDelete(pendingSignRequests, requestId)
       ELSE UNCHANGED <<calls, pendingSignRequests>>
    /\ reply' = Reply("REJECT_SIGNING", TRUE, "")
    /\ UNCHANGED <<walletState, storage, inflight>>

\* ------------------------------------ content.js: signTransaction's setTimeout
\* the page promise is rejected with 'Request timed out'; nothing is sent to the worker
pageTimeout(i) ==
    /\ i \in 1..Len(calls)
    /\ calls[i].response.state = "none"
    /\ ~calls[i].timedOut
    /\ calls' = [calls EXCEPT ![i].timedOut = TRUE]
    /\ UNCHANGED <<walletState, storage, pendingSignRequests, inflight, reply>>

\* ------------------------------------------- onConnect: GET_SIGN_REQUEST
\* the signing window asks over its port for the request it shows; the answer is
\* posted on the port (held in reply), and an unknown id gets none
getSignRequest(requestId) ==
    /\ requestId \in DOMAIN pendingSignRequests
    /\ reply' = ReplyData("SIGN_REQUEST_DATA",
                          [unsignedTx |-> pendingSignRequests[requestId].unsignedTx,
                           details |-> pendingSignRequests[requestId].details])
    /\ UNCHANGED <<walletState, storage, pendingSignRequests, calls, inflight>>

\* ------------------------------- inject.js / content.js: signTransaction
\* the promise that the page holds for call c of calls
PagePending == [state |-> "pending", signedTx |-> NoTx, error |-> ""]
PageResolved(signedTx) == [state |-> "resolved", signedTx |-> signedTx, error |-> ""]
PageRejected(error) == [state |-> "rejected", signedTx |-> NoTx, error |-> error]
pagePromise(c) ==
    IF c.timedOut THEN PageRejected("Request timed out")
    ELSE IF c.response.state = "success" THEN PageResolved(c.response.signedTx)
    ELSE IF c.response.state = "failure"
         THEN PageRejected(IF c.response.error = "" THEN "Failed to sign transaction"
                           ELSE c.response.error)
    ELSE PagePending

\* signTransaction(params) with params.unsignedTx: the content script gives the
\* call a request id of its own making and sends SIGN_TRANSACTION
pageSignTransaction(requestId, unsignedTx, details) ==
    /\ \A i \in 1..Len(calls) : calls[i].requestId # requestId
    /\ handleSignTransactionRequest(requestId, unsignedTx, details)

\* signTransaction(params) without params.unsignedTx throws; the call is
\* recorded with no request id, as no message carries it
pageSignTransactionMissing ==
    /\ Len(calls) < MaxCalls
    /\ calls' = Append(calls, Call("", Failure("Missing unsignedTx parameter"), FALSE))
    /\ UNCHANGED <<walletState, storage, pendingSignRequests, inflight, reply>>

\* ------------------------------------------------------------ sendResponse
\* reply holds the response a handler has just passed to sendResponse; the port
\* carries it to the sender.  The worker's state does not depend on it, and the
\* next message is taken up once it is gone.
responseDelivered ==
    /\ reply # NoReply
    /\ reply' = NoReply
    /\ UNCHANGED <<walletState, storage, pendingSignRequests, calls, inflight>>

\* ------------------------------------- chrome.storage.local.set rejects
\* The write is refused (the quota, a failing disk): the handler's catch block
\* answers with the error, and what the handler assigned before the write stays.
StorageErrorMessage == "QUOTA_BYTES quota exceeded"
SaveFailedMessage == "Failed to save wallet to storage: " \o StorageErrorMessage

handleCreateWalletStorageFails(s) ==
    /\ Suspended(s, "create")
    /\ pushAccount(inflight[s])
    /\ inflight' = Resume(s)
    /\ reply' = Reply("CREATE_WALLET", FALSE, SaveFailedMessage)
    /\ UNCHANGED <<storage, pendingSignRequests, calls>>

handleImportWalletStorageFails(s) ==
    /\ Suspended(s, "import")
    /\ pushAccount(inflight[s])
    /\ inflight' = Resume(s)
    /\ reply' = Reply("IMPORT_WALLET", FALSE, SaveFailedMessage)
    /\ UNCHANGED <<storage, pendingSignRequests, calls>>

handleSwitchAccountLockedStorageFails(accountIndex) ==
    /\ ~IndexInvalid(accountIndex)
    /\ HasFreeSlot
    /\ currentPrivateKey' = NULL
    /\ isUnlocked' = FALSE
    /\ currentAccountIndex' = accountIndex
    /\ inflight' = Suspend([op |-> "switch_save_failed", accountIndex |-> accountIndex])
    /\ UNCHANGED <<accounts, storage, pendingSignRequests, calls, reply>>

handleSwitchAccountDecryptedStorageFails(s) ==
    /\ Suspended(s, "switch")
    /\ inflight[s].privateKey # DecryptFailed
    /\ currentPrivateKey' = inflight[s].privateKey
    /\ isUnlocked' = TRUE
    /\ currentAccountIndex' = inflight[s].accountIndex
    /\ inflight' = [inflight EXCEPT ![s] = [op |-> "switch_save_failed",
                                           accountIndex |-> inflight[s].accountIndex]]
    /\ UNCHANGED <<accounts, storage, pendingSignRequests, calls, reply>>

\* the rejection of storage.set reaches the suspended handler
handleSwitchAccountSaveFailed(s) ==
    /\ Suspended(s, "switch_save_failed")
    /\ inflight' = Resume(s)
    /\ reply' = Reply("SWITCH_ACCOUNT", FALSE, StorageErrorMessage)
    /\ UNCHANGED <<walletState, storage, pendingSignRequests, calls>>

handleRenameAccountStorageFails(accountIndex, newName) ==
    /\ RenameError(accountIndex, newName) = ""
    /\ accounts' = [accounts EXCEPT ![accountIndex + 1].name = Trim(newName)]
    /\ reply' = Reply("RENAME_ACCOUNT", FALSE, StorageErrorMessage)
    /\ UNCHANGED <<isUnlocked, currentAccountIndex, currentPrivateKey, storage,
                   pendingSignRequests, calls, inflight>>

handleDeleteAccountStorageFails(accountIndex) ==
    /\ DeleteError(accountIndex) = ""
    /\ accounts' = Splice(accounts, accountIndex)
    /\ currentAccountIndex' = IF currentAccountIndex >= accountIndex
                              THEN Max(0, currentAccountIndex - 1)
                              ELSE currentAccountIndex
    /\ currentPrivateKey' = NULL
    /\ isUnlocked' = FALSE
    /\ reply' = Reply("DELETE_ACCOUNT", FALSE, StorageErrorMessage)
    /\ UNCHANGED <<storage, pendingSignRequests, calls, inflight>>

\* ------------------------------------------------- onMessage: the dispatcher
CreateImportMessage(passwords, importInputs) ==
    \/ \E password \in passwords \cup {NoPassword} : handleCreateWalletInvalid(password)
    \/ \E password \in passwords : handleCreateWalletStart(password)
    \/ \E in \in importInputs, password \in passwords :
          handleImportWalletInvalid(in.address, in.privateKey, password)
    \/ \E in \in importInputs, password \in passwords :
          handleImportWalletStart(in.address, in.privateKey, password)

LockUnlockMessage(passwords) ==
    \/ \E password \in passwords : handleUnlockWalletNoAccount(password)
    \/ \E password \in passwords : handleUnlockWalletStart(password)
    \/ handleLockWallet

\* unlock and switch on an account whose blob is no base64
MalformedBlobMessage(passwords, indices) ==
    \/ \E password \in passwords : handleUnlockWalletMalformed(password)
    \/ \E accountIndex \in indices, password \in passwords :
          handleSwitchAccountMalformed(accountIndex, password)

SwitchDeleteMessage(passwords, indices) ==
    \/ \E accountIndex \in indices : handleSwitchAccountInvalid(accountIndex)
    \/ \E accountIndex \in indices : handleSwitchAccountLocked(accountIndex)
    \/ \E accountIndex \in indices, password \in passwords :
          handleSwitchAccountStart(accountIndex, password)
    \/ \E accountIndex \in indices : handleDeleteAccountInvalid(accountIndex)
    \/ \E accountIndex \in indices : handleDeleteAccount(accountIndex)

RenameMessage(indices, newNames) ==
    \E accountIndex \in indices, newName \in newNames : handleRenameAccount(accountIndex, newName)

SigningMessage(signRequests) ==
    \/ \E in \in signRequests :
          handleSignTransactionRequest(in.requestId, in.unsignedTx, in.details)
    \/ \E in \in signRequests : handleApproveSign(in.requestId)
    \/ \E in \in signRequests : handleRejectSign(in.requestId)

\* a suspended handler is resumed when the operation it awaits settles
CreateImportResume ==
    \/ \E s \in Slots : handleCreateWalletFinish(s)
    \/ \E s \in Slots : handleImportWalletFinish(s)

UnlockResume ==
    \E s \in Slots : handleUnlockWalletFinish(s)

SwitchResume ==
    \/ \E s \in Slots : handleSwitchAccountDecrypted(s)
    \/ \E s \in Slots : handleSwitchAccountFinish(s)

SigningResume ==
    \E s \in Slots : handleApproveSignFinish(s)

\* a command whose storage.set is refused, up to its first suspension
StorageFailsMessage(indices, newNames) ==
    \/ \E accountIndex \in indices : handleSwitchAccountLockedStorageFails(accountIndex)
    \/ \E accountIndex \in indices, newName \in newNames :
          handleRenameAccountStorageFails(accountIndex, newName)
    \/ \E accountIndex \in indices : handleDeleteAccountStorageFails(accountIndex)

StorageFailsResume ==
    \/ \E s \in Slots : handleCreateWalletStorageFails(s)
    \/ \E s \in Slots : handleImportWalletStorageFails(s)
    \/ \E s \in Slots : handleSwitchAccountDecryptedStorageFails(s)
    \/ \E s \in Slots : handleSwitchAccountSaveFailed(s)

LoadResume ==
    \/ \E s \in Slots : loadWalletFromStorageGot(s)
    \/ \E s \in Slots : loadWalletFromStorageMigrate(s)
    \/ \E s \in Slots : loadWalletFromStorageRemove(s)

PageTimer ==
    \E i \in 1..MaxCalls : pageTimeout(i)

Ready == reply = NoReply
\* no account command is being handled (approvals may be)
AccountsQuiet == \A s \in DOMAIN inflight : inflight[s].op = "approve"

\* The request coordinator, with the account commands that decide whether and
\* with which key it can sign; one account command at a time.
Next ==
    \/ Ready /\ SigningMessage(SignRequests) /\ UNCHANGED <<commands, page, lib>>
    \/ Ready /\ SigningResume /\ UNCHANGED <<commands, page, lib>>
    \/ Ready /\ AccountsQuiet /\ CreateImportMessage(SigningPasswords, SigningImports) /\ UNCHANGED <<commands, page, lib>>
    \/ Ready /\ AccountsQuiet /\ LockUnlockMessage(SigningPasswords) /\ UNCHANGED <<commands, page, lib>>
    \/ Ready /\ CreateImportResume /\ UNCHANGED <<commands, page, lib>>
    \/ Ready /\ UnlockResume /\ UNCHANGED <<commands, page, lib>>
    \/ responseDelivered /\ UNCHANGED <<commands, page, lib>>

Spec == Init /\ [][Next]_vars

\* The request coordinator on one request id, with every account command; one
\* account command at a time.
NextFrame ==
    \/ Ready /\ SigningMessage({in \in SignRequests : in.requestId = "req_1"}) /\ UNCHANGED <<commands, page, lib>>
    \/ Ready /\ SigningResume /\ UNCHANGED <<commands, page, lib>>
    \/ Ready /\ PageTimer /\ UNCHANGED <<commands, page, lib>>
    \/ Ready /\ AccountsQuiet /\ CreateImportMessage(SigningPasswords, SigningImports) /\ UNCHANGED <<commands, page, lib>>
    \/ Ready /\ AccountsQuiet /\ LockUnlockMessage(SigningPasswords) /\ UNCHANGED <<commands, page, lib>>
    \/ Ready /\ AccountsQuiet /\ SwitchDeleteMessage(SigningPasswords, 0..MaxAccounts) /\ UNCHANGED <<commands, page, lib>>
    \/ Ready /\ CreateImportResume /\ UNCHANGED <<commands, page, lib>>
    \/ Ready /\ UnlockResume /\ UNCHANGED <<commands, page, lib>>
    \/ Ready /\ SwitchResume /\ UNCHANGED <<commands, page, lib>>
    \/ responseDelivered /\ UNCHANGED <<commands, page, lib>>

SpecFrame == Init /\ [][NextFrame]_vars

\* The account manager alone, its commands interleaved at their awaits.
NextWallet ==
    \/ Ready /\ CreateImportMessage(Passwords, ImportInputs) /\ UNCHANGED <<commands, page, lib>>
    \/ Ready /\ LockUnlockMessage(Passwords) /\ UNCHANGED <<commands, page, lib>>
    \/ Ready /\ SwitchDeleteMessage(Passwords, -1..MaxAccounts) /\ UNCHANGED <<commands, page, lib>>
    \/ Ready /\ RenameMessage(-1..MaxAccounts, NewNames) /\ UNCHANGED <<commands, page, lib>>
    \/ Ready /\ handleGetWalletStatus /\ UNCHANGED <<commands, page, lib>>
    \/ Ready /\ CreateImportResume /\ UNCHANGED <<commands, page, lib>>
    \/ Ready /\ UnlockResume /\ UNCHANGED <<commands, page, lib>>
    \/ Ready /\ SwitchResume /\ UNCHANGED <<commands, page, lib>>
    \/ responseDelivered /\ UNCHANGED <<commands, page, lib>>

SpecWallet == Init /\ [][NextWallet]_vars

\* A wallet loaded from storage: unlock, lock, switch and delete, interleaved at
\* their awaits.
LoadedPasswords == {StoredPassword, "hunter22"}

NextLoaded ==
    \/ Ready /\ LockUnlockMessage(LoadedPasswords) /\ UNCHANGED <<commands, page, lib>>
    \/ Ready /\ SwitchDeleteMessage(LoadedPasswords, 0..MaxAccounts) /\ UNCHANGED <<commands, page, lib>>
    \/ Ready /\ MalformedBlobMessage(LoadedPasswords, 0..MaxAccounts) /\ UNCHANGED <<commands, page, lib>>
    \/ Ready /\ UnlockResume /\ UNCHANGED <<commands, page, lib>>
    \/ Ready /\ SwitchResume /\ UNCHANGED <<commands, page, lib>>
    \/ responseDelivered /\ UNCHANGED <<commands, page, lib>>

SpecLoaded == InitLoaded /\ [][NextLoaded]_vars

\* The account manager on a store whose writes may be refused; one command at a
\* time, under either of two passwords.
StoragePasswords == {StoredPassword, "hunter22"}
StorageImports == {[address |-> "1Alice", privateKey |-> WifKey(1, 51)]}
Quiet == inflight = <<>>

NextStorage ==
    \/ Ready /\ Quiet /\ CreateImportMessage(StoragePasswords, StorageImports) /\ UNCHANGED <<commands, page, lib>>
    \/ Ready /\ Quiet /\ SwitchDeleteMessage(StoragePasswords, 0..MaxAccounts) /\ UNCHANGED <<commands, page, lib>>
    \/ Ready /\ Quiet /\ RenameMessage(0..MaxAccounts, NewNames) /\ UNCHANGED <<commands, page, lib>>
    \/ Ready /\ Quiet /\ StorageFailsMessage(0..MaxAccounts, NewNames) /\ UNCHANGED <<commands, page, lib>>
    \/ Ready /\ CreateImportResume /\ UNCHANGED <<commands, page, lib>>
    \/ Ready /\ SwitchResume /\ UNCHANGED <<commands, page, lib>>
    \/ Ready /\ StorageFailsResume /\ UNCHANGED <<commands, page, lib>>
    \/ responseDelivered /\ UNCHANGED <<commands, page, lib>>

SpecStorage == Init /\ [][NextStorage]_vars

\* The worker from its start: the load of the wallet, and the commands that may
\* arrive while it is under way.
NextStartup ==
    \/ Ready /\ workerStart /\ UNCHANGED <<commands, page, lib>>
    \/ Ready /\ LoadResume /\ UNCHANGED <<commands, page, lib>>
    \/ Ready /\ handleGetWalletStatus /\ UNCHANGED <<commands, page, lib>>
    \/ Ready /\ handleCreateWalletStart(StoredPassword) /\ UNCHANGED <<commands, page, lib>>
    \/ Ready /\ \E s \in Slots : handleCreateWalletFinish(s) /\ UNCHANGED <<commands, page, lib>>
    \/ Ready /\ LockUnlockMessage({StoredPassword}) /\ UNCHANGED <<commands, page, lib>>
    \/ Ready /\ UnlockResume /\ UNCHANGED <<commands, page, lib>>
    \/ responseDelivered /\ UNCHANGED <<commands, page, lib>>

SpecStartup == InitStartup /\ [][NextStartup]_vars

\* The page's API and the signing window on top of the request coordinator: the
\* calls of signTransaction, the window's messages, and the queries of the
\* command surface.
NextPage ==
    \/ Ready /\ (\E in \in SignRequests : pageSignTransaction(in.requestId, in.unsignedTx, in.details))
             /\ UNCHANGED <<commands, page, lib>>
    \/ Ready /\ pageSignTransactionMissing /\ UNCHANGED <<commands, page, lib>>
    \/ Ready /\ (\E in \in SignRequests : getSignRequest(in.requestId)) /\ UNCHANGED <<commands, page, lib>>
    \/ Ready /\ (\E in \in SignRequests : handleApproveSign(in.requestId)) /\ UNCHANGED <<commands, page, lib>>
    \/ Ready /\ (\E in \in SignRequests : handleRejectSign(in.requestId)) /\ UNCHANGED <<commands, page, lib>>
    \/ Ready /\ SigningResume /\ UNCHANGED <<commands, page, lib>>
    \/ Ready /\ handleGetWalletStatus /\ UNCHANGED <<commands, page, lib>>
    \/ Ready /\ handleGetAccounts /\ UNCHANGED <<commands, page, lib>>
    \/ Ready /\ AccountsQuiet /\ CreateImportMessage(SigningPasswords, SigningImports) /\ UNCHANGED <<commands, page, lib>>
    \/ Ready /\ AccountsQuiet /\ LockUnlockMessage(SigningPasswords) /\ UNCHANGED <<commands, page, lib>>
    \/ Ready /\ CreateImportResume /\ UNCHANGED <<commands, page, lib>>
    \/ Ready /\ UnlockResume /\ UNCHANGED <<commands, page, lib>>
    \/ responseDelivered /\ UNCHANGED <<commands, page, lib>>

SpecPage == Init /\ [][NextPage]_vars

\* ----------------------------------------------- the commands, run to the end
\* What each handler does to walletState when nothing else runs between its
\* first statement and its last.
LoadedWallet == [isUnlocked |-> FALSE, currentAccountIndex |-> 0,
                 accounts |-> StoredAccounts, currentPrivateKey |-> NULL]
CurrentWallet == [isUnlocked |-> isUnlocked, currentAccountIndex |-> currentAccountIndex,
                  accounts |-> accounts, currentPrivateKey |-> currentPrivateKey]
Rejected(privateKey) == privateKey \in {DecryptFailed, DecodeFailed}

runUnlockWallet(w, password) ==
    IF w.currentAccountIndex >= Len(w.accounts) THEN w
    ELSE LET privateKey == decrypt(w.accounts[w.currentAccountIndex + 1].encryptedPrivateKey, password)
         IN  IF Rejected(privateKey) THEN w
             ELSE [w EXCEPT !.currentPrivateKey = privateKey, !.isUnlocked = TRUE]

runLockWallet(w) == [w EXCEPT !.currentPrivateKey = NULL, !.isUnlocked = FALSE]

runSwitchAccount(w, accountIndex, password) ==
    IF accountIndex < 0 \/ accountIndex >= Len(w.accounts) THEN w
    ELSE IF password = NoPassword
         THEN [w EXCEPT !.currentPrivateKey = NULL, !.isUnlocked = FALSE,
                        !.currentAccountIndex = accountIndex]
    ELSE LET privateKey == decrypt(w.accounts[accountIndex + 1].encryptedPrivateKey, password)
         IN  IF Rejected(privateKey) THEN w
             ELSE [w EXCEPT !.currentPrivateKey = privateKey, !.isUnlocked = TRUE,
                            !.currentAccountIndex = accountIndex]

runDeleteAccount(w, accountIndex) ==
    IF Len(w.accounts) = 1 \/ accountIndex < 0 \/ accountIndex >= Len(w.accounts) THEN w
    ELSE [w EXCEPT !.accounts = Splice(w.accounts, accountIndex),
                   !.currentAccountIndex = IF w.currentAccountIndex >= accountIndex
                                           THEN Max(0, w.currentAccountIndex - 1)
                                           ELSE w.currentAccountIndex,
                   !.currentPrivateKey = NULL, !.isUnlocked = FALSE]

runCommand(w, c) ==
    CASE c.type = "UNLOCK_WALLET" -> runUnlockWallet(w, c.password)
      [] c.type = "LOCK_WALLET" -> runLockWallet(w)
      [] c.type = "SWITCH_ACCOUNT" -> runSwitchAccount(w, c.accountIndex, c.password)
      [] c.type = "DELETE_ACCOUNT" -> runDeleteAccount(w, c.accountIndex)

RECURSIVE runSerially(_, _)
runSerially(w, cs) == IF cs = <<>> THEN w ELSE runSerially(runCommand(w, Head(cs)), Tail(cs))

\* Two commands on the loaded wallet, the second taken up while the first is
\* suspended or after it.
Command(type, accountIndex, password) ==
    [type |-> type, accountIndex |-> accountIndex, password |-> password]
PairCommands ==
    {Command("UNLOCK_WALLET", 0, StoredPassword), Command("LOCK_WALLET", 0, NoPassword)}
    \cup {Command("SWITCH_ACCOUNT", i, password) : i \in 0..MaxAccounts, password \in {NoPassword, StoredPassword}}
    \cup {Command("DELETE_ACCOUNT", i, NoPassword) : i \in 0..MaxAccounts}

\* the listener's switch on message.type
onMessage(c) ==
    \/ c.type = "UNLOCK_WALLET" /\ handleUnlockWalletStart(c.password)
    \/ c.type = "LOCK_WALLET" /\ handleLockWallet
    \/ c.type = "SWITCH_ACCOUNT" /\ handleSwitchAccountInvalid(c.accountIndex)
    \/ c.type = "SWITCH_ACCOUNT" /\ c.password = NoPassword /\ handleSwitchAccountLocked(c.accountIndex)
    \/ c.type = "SWITCH_ACCOUNT" /\ handleSwitchAccountStart(c.accountIndex, c.password)
    \/ c.type = "DELETE_ACCOUNT" /\ handleDeleteAccountInvalid(c.accountIndex)
    \/ c.type = "DELETE_ACCOUNT" /\ handleDeleteAccount(c.accountIndex)

NextPair ==
    \/ \E c \in PairCommands :
          Ready /\ Len(commands) < MaxCommands /\ onMessage(c) /\ commands' = Append(commands, c)
                /\ UNCHANGED <<page, lib>>
    \/ Ready /\ UnlockResume /\ UNCHANGED <<commands, page, lib>>
    \/ Ready /\ SwitchResume /\ UNCHANGED <<commands, page, lib>>
    \/ responseDelivered /\ UNCHANGED <<commands, page, lib>>

InitPair == InitLoaded /\ accounts = StoredAccounts

SpecPair == InitPair /\ [][NextPair]_vars

\* ======================================================== request coordinator
Settled(i) == calls[i].response.state # "none"
Accepted(i) == calls[i].window
ApproveFinishOf(requestId) ==
    \E s \in Slots : Suspended(s, "approve") /\ inflight[s].requestId = requestId
                      /\ handleApproveSignFinish(s)

\* C1: a caller gets a signed transaction only after an APPROVE_SIGNING for its
\* request was handled, the signer is never run on a request that no approval
\* looked up, and a request without approval has no signed transaction.
C1_SignedOnlyAfterApprove ==
    \A i \in 1..Len(calls) :
        /\ calls[i].signings > 0 => calls[i].approvals > 0
        /\ calls[i].response.state = "success" => calls[i].approvals > 0 /\ calls[i].signings > 0

C1_Witness ==
    \E i \in 1..Len(calls) : calls[i].response.state = "success" /\ calls[i].approvals = 1

\* C2: the signer runs at most once on a request, whatever APPROVE_SIGNING and
\* REJECT_SIGNING messages arrive and however they interleave.
C2_SignedAtMostOnce ==
    \A i \in 1..Len(calls) : calls[i].signings <= 1

\* C3: every accepted request that has no response yet is the live entry of its
\* requestId, so that the Approve or Reject of that id completes it (also when
\* the same requestId is submitted again while the first is pending).
C3_PendingCallHasItsEntry ==
    \A i \in 1..Len(calls) :
        Accepted(i) /\ ~Settled(i) =>
            /\ calls[i].requestId \in DOMAIN pendingSignRequests
            /\ pendingSignRequests[calls[i].requestId].call = i

\* C4: a SIGN_TRANSACTION that arrives while the wallet is locked is answered at
\* once with the 'Wallet is locked' error, opens no window and leaves the table
\* of pending requests as it was.
C4_LockedRequestRefused ==
    [][\A in \in SignRequests :
          (~isUnlocked /\ handleSignTransactionRequest(in.requestId, in.unsignedTx, in.details)) =>
              /\ calls'[Len(calls')].response = Failure("Wallet is locked. Please unlock it first.")
              /\ ~calls'[Len(calls')].window
              /\ pendingSignRequests' = pendingSignRequests]_vars

C4_Witness ==
    \E i \in 1..Len(calls) : ~calls[i].window /\ calls[i].response.state = "failure"
                              /\ pendingSignRequests = <<>>

\* C5: when an Approve of an existing entry completes, the entry is gone, and the
\* caller's channel carries the signed transaction if signing succeeded, the
\* signing error if it failed.
C5_ApproveCompletes ==
    [][/\ \A s \in Slots :
             (Suspended(s, "approve") /\ handleApproveSignFinish(s)) =>
                 /\ inflight[s].requestId \notin DOMAIN pendingSignRequests'
                 /\ calls'[inflight[s].request.call].response = Success(inflight[s].signedTx)
       /\ \A requestId \in RequestIds :
             handleApproveSignThrows(requestId) =>
                 /\ requestId \notin DOMAIN pendingSignRequests'
                 /\ calls'[pendingSignRequests[requestId].call].response = Failure(reply'.error)]_vars

\* C6: an Approve of an id without a pending entry fails with 'Request not found',
\* runs no signing and changes neither the table nor the wallet state.
C6_ApproveUnknown ==
    [][\A requestId \in RequestIds :
          (requestId \notin DOMAIN pendingSignRequests /\ handleApproveSign(requestId)) =>
              /\ reply' = Reply("APPROVE_SIGNING", FALSE, "Request not found")
              /\ UNCHANGED <<walletState, storage, pendingSignRequests, calls, inflight>>]_vars

C6_Witness ==
    /\ reply = Reply("APPROVE_SIGNING", FALSE, "Request not found")
    /\ \E i \in 1..Len(calls) : Settled(i) /\ Accepted(i)

\* C7: a Reject of a pending id gives its caller 'User rejected transaction' and
\* deletes the entry, a Reject of an absent id changes nothing, and the rejecter
\* gets success either way: a second Reject finds the id absent.
C7_RejectIdempotent ==
    [][\A requestId \in RequestIds :
          handleRejectSign(requestId) =>
              /\ reply' = Reply("REJECT_SIGNING", TRUE, "")
              /\ requestId \notin DOMAIN pendingSignRequests'
              /\ requestId \in DOMAIN pendingSignRequests =>
                     /\ calls'[pendingSignRequests[requestId].call].response
                            = Failure("User rejected transaction")
                     /\ \A other \in DOMAIN pendingSignRequests \ {requestId} :
                            /\ other \in DOMAIN pendingSignRequests'
                            /\ pendingSignRequests'[other] = pendingSignRequests[other]
              /\ requestId \notin DOMAIN pendingSignRequests =>
                     UNCHANGED <<walletState, storage, pendingSignRequests, calls, inflight>>]_vars

C7_Witness ==
    /\ reply = Reply("REJECT_SIGNING", TRUE, "")
    /\ \E i \in 1..Len(calls) : calls[i].response = Failure("User rejected transaction")

\* C8: an Approve or Reject of one pending id leaves the entry of every other
\* pending id, and that entry's caller, as they were.
C8_RequestsIndependent ==
    [][\A a \in RequestIds, b \in RequestIds :
          (/\ a # b
           /\ b \in DOMAIN pendingSignRequests
           /\ handleApproveSign(a) \/ ApproveFinishOf(a) \/ handleRejectSign(a)) =>
              /\ b \in DOMAIN pendingSignRequests'
              /\ pendingSignRequests'[b] = pendingSignRequests[b]
              /\ calls'[pendingSignRequests[b].call] = calls[pendingSignRequests[b].call]]_vars

C8_Witness ==
    \E i \in 1..Len(calls), j \in 1..Len(calls) :
        /\ calls[i].requestId # calls[j].requestId
        /\ Accepted(i) /\ Settled(i)
        /\ Accepted(j) /\ ~Settled(j)
        /\ calls[j].requestId \in DOMAIN pendingSignRequests
        /\ i < j

\* C9: a requestId leaves the table of pending requests only in a step of the
\* Approve or the Reject of that id; every account command, every resumed account
\* handler and the page's timer leave the table as it was.
C9_RemovedOnlyByDecision ==
    [][/\ \A requestId \in DOMAIN pendingSignRequests :
             requestId \notin DOMAIN pendingSignRequests' =>
                 \/ handleApproveSignThrows(requestId)
                 \/ ApproveFinishOf(requestId)
                 \/ handleRejectSign(requestId)
       /\ (\/ CreateImportMessage(SigningPasswords, SigningImports)
           \/ LockUnlockMessage(SigningPasswords)
           \/ SwitchDeleteMessage(SigningPasswords, 0..MaxAccounts)
           \/ CreateImportResume \/ UnlockResume \/ SwitchResume
           \/ PageTimer) => UNCHANGED pendingSignRequests]_vars

C9_Witness ==
    /\ "req_1" \in DOMAIN pendingSignRequests
    /\ calls[pendingSignRequests["req_1"].call].timedOut
    /\ ~isUnlocked
    /\ Len(accounts) = 1
    /\ reply = Reply("DELETE_ACCOUNT", TRUE, "")

\* ============================================================ account manager
\* C10: currentPrivateKey is set exactly when isUnlocked is true.
C10_KeyIffUnlocked ==
    (currentPrivateKey # NULL) <=> isUnlocked

C10_Witness ==
    /\ isUnlocked /\ currentPrivateKey # NULL
    /\ reply = Reply("UNLOCK_WALLET", TRUE, "")
    /\ Len(accounts) = MaxAccounts

\* C11: while the wallet is unlocked, currentPrivateKey is the plaintext of the
\* encryptedPrivateKey of accounts[currentAccountIndex].
C11_KeyOfCurrentAccount ==
    isUnlocked =>
        /\ currentAccountIndex < Len(accounts)
        /\ currentPrivateKey = accounts[currentAccountIndex + 1].encryptedPrivateKey.pt

\* C12: with a non-empty account list, 0 <= currentAccountIndex < accounts.length.
C12_IndexInRange ==
    Len(accounts) > 0 => 0 <= currentAccountIndex /\ currentAccountIndex < Len(accounts)

\* C13: no two accounts of the list have the same address, also when
\* IMPORT_WALLET handlers run concurrently.
C13_AddressesUnique ==
    \A i \in 1..Len(accounts), j \in 1..Len(accounts) :
        i # j => accounts[i].address # accounts[j].address

\* C14: a non-empty account list never becomes empty, and a DELETE_ACCOUNT on a
\* list of exactly one account is answered 'Cannot delete the only account' and
\* leaves the wallet state and storage as they were.
C14_OnlyAccountStays ==
    [][/\ Len(accounts) >= 1 => Len(accounts') >= 1
       /\ \A accountIndex \in -1..MaxAccounts :
             (/\ Len(accounts) = 1
              /\ handleDeleteAccountInvalid(accountIndex) \/ handleDeleteAccount(accountIndex)) =>
                 /\ reply' = Reply("DELETE_ACCOUNT", FALSE, "Cannot delete the only account")
                 /\ UNCHANGED <<walletState, storage>>]_vars

C14_Witness ==
    /\ reply = Reply("DELETE_ACCOUNT", FALSE, "Cannot delete the only account")
    /\ Len(accounts) = 1
    /\ isUnlocked

\* the address of the selected account, "" when the index selects none
SelectedAddress ==
    IF currentAccountIndex < Len(accounts) THEN accounts[currentAccountIndex + 1].address ELSE ""

\* C15: a successful DELETE_ACCOUNT(i) removes account i and keeps the order of
\* the others, lowers currentAccountIndex by one (not below 0) when
\* i <= currentAccountIndex and keeps it otherwise, ends locked, and when i is
\* not the current index the selected account (by address) stays the same.
C15_DeleteKeepsSelection ==
    [][\A i \in 0..MaxAccounts :
          handleDeleteAccount(i) =>
              /\ Len(accounts') = Len(accounts) - 1
              /\ \A j \in 1..Len(accounts') :
                     accounts'[j] = IF j <= i THEN accounts[j] ELSE accounts[j + 1]
              /\ currentAccountIndex' = IF i <= currentAccountIndex
                                        THEN Max(0, currentAccountIndex - 1)
                                        ELSE currentAccountIndex
              /\ ~isUnlocked' /\ currentPrivateKey' = NULL
              /\ i # currentAccountIndex => SelectedAddress' = SelectedAddress]_vars

C15_Witness ==
    /\ reply = Reply("DELETE_ACCOUNT", TRUE, "")
    /\ Len(accounts) = MaxAccounts
    /\ currentAccountIndex = MaxAccounts - 1
    /\ SelectedAddress = StoredAccounts[MaxAccounts + 1].address

\* C16: CREATE_WALLET with a password of fewer than 8 characters is refused and
\* changes nothing; a successful one appends one account, makes it current, ends
\* unlocked, and the status then reported has hasWallet and isUnlocked true, the
\* address of the response and totalAccounts one greater than before.
C16_CreateWallet ==
    [][/\ \A password \in Passwords \cup {NoPassword} :
             (/\ Len(password) < MinPasswordLength
              /\ handleCreateWalletInvalid(password) \/ handleCreateWalletStart(password)) =>
                 /\ reply'.type = "CREATE_WALLET" /\ ~reply'.success
                 /\ UNCHANGED <<walletState, storage, inflight>>
       /\ \A s \in Slots :
             (Suspended(s, "create") /\ handleCreateWalletFinish(s)) =>
                 /\ reply'.success
                 /\ Len(accounts') = Len(accounts) + 1
                 /\ SubSeq(accounts', 1, Len(accounts)) = accounts
                 /\ currentAccountIndex' = Len(accounts') - 1
                 /\ isUnlocked'
                 /\ walletStatus'.hasWallet /\ walletStatus'.isUnlocked
                 /\ walletStatus'.address = reply'.data.address
                 /\ walletStatus'.totalAccounts = walletStatus.totalAccounts + 1]_vars

C16_Witness ==
    /\ reply = ReplyData("GET_WALLET_STATUS", walletStatus)
    /\ isUnlocked /\ currentPrivateKey.enc = "hex"
    /\ currentAccountIndex = Len(accounts) - 1
    /\ Len(accounts) = MaxAccounts

\* the refusals of IMPORT_WALLET: as the claim lists them, and as the handler makes them
ImportRefusedAsStated(address, privateKey, password) ==
    \/ Len(password) < MinPasswordLength
    \/ privateKey.len \notin {51, 52}
    \/ \E i \in 1..Len(accounts) : accounts[i].address = address

ImportRefused(address, privateKey, password) ==
    \/ address = ""
    \/ ImportRefusedAsStated(address, privateKey, password)

\* the resumed handler appends the account it was called for, selects it and unlocks
ImportAppends ==
    \A s \in Slots :
        (Suspended(s, "import") /\ handleImportWalletFinish(s)) =>
            /\ Len(accounts') = Len(accounts) + 1
            /\ SubSeq(accounts', 1, Len(accounts)) = accounts
            /\ accounts'[Len(accounts')].address = inflight[s].address
            /\ currentAccountIndex' = Len(accounts') - 1
            /\ isUnlocked' /\ currentPrivateKey' = inflight[s].privateKey

\* the handler refuses exactly the inputs that refused names, and goes on otherwise
ImportDecides(refused(_, _, _)) ==
    \A in \in ImportInputs, password \in Passwords :
        (\/ handleImportWalletInvalid(in.address, in.privateKey, password)
         \/ handleImportWalletStart(in.address, in.privateKey, password)) =>
            IF refused(in.address, in.privateKey, password)
            THEN /\ reply'.type = "IMPORT_WALLET" /\ ~reply'.success
                 /\ UNCHANGED <<walletState, storage, inflight>>
            ELSE /\ UNCHANGED <<walletState, storage, reply>>
                 /\ inflight'[Len(inflight')].address = in.address
                 /\ inflight'[Len(inflight')].privateKey = in.privateKey

\* C17 as stated: IMPORT_WALLET is refused, with the wallet state and storage
\* unchanged, when the password has fewer than 8 characters, the WIF length is
\* neither 51 nor 52 or the address is in the list, and in every other case it
\* goes on to append an account with the given address, select it and unlock.
C17_ImportAsStated ==
    [][ImportDecides(ImportRefusedAsStated) /\ ImportAppends]_vars

\* C17 amended: the same, with the empty address among the refused cases.
C17_ImportWallet ==
    [][ImportDecides(ImportRefused) /\ ImportAppends]_vars

C17_Witness ==
    /\ reply = Reply("IMPORT_WALLET", FALSE, "Bitcoin address is required")
    /\ isUnlocked
    /\ \E i \in 1..Len(accounts) : accounts[i].address = "1Alice"
                                     /\ currentPrivateKey = WifKey(1, 51)

\* C18: an UNLOCK_WALLET that finds no account or whose decryption fails answers
\* with a failure and leaves the wallet state as it was; one whose decryption
\* succeeds ends unlocked with the secret of the current account and leaves
\* accounts and currentAccountIndex as they were.
C18_Unlock ==
    [][/\ \A password \in Passwords :
             handleUnlockWalletNoAccount(password) =>
                 ~reply'.success /\ UNCHANGED <<walletState, storage>>
       /\ \A s \in Slots :
             (Suspended(s, "unlock") /\ handleUnlockWalletFinish(s)) =>
                 IF inflight[s].privateKey = DecryptFailed
                 THEN ~reply'.success /\ UNCHANGED <<walletState, storage>>
                 ELSE /\ reply'.success /\ isUnlocked'
                      /\ UNCHANGED <<accounts, currentAccountIndex, storage>>
                      /\ currentAccountIndex < Len(accounts)
                      /\ currentPrivateKey' = accounts[currentAccountIndex + 1].encryptedPrivateKey.pt]_vars

\* C19: LOCK_WALLET answers success, ends locked with currentPrivateKey null,
\* leaves accounts, currentAccountIndex and storage as they were, and on a locked
\* wallet changes nothing.
C19_LockIdempotent ==
    [][handleLockWallet =>
          /\ reply' = Reply("LOCK_WALLET", TRUE, "")
          /\ ~isUnlocked' /\ currentPrivateKey' = NULL
          /\ UNCHANGED <<accounts, currentAccountIndex, storage>>
          /\ (~isUnlocked /\ currentPrivateKey = NULL) => UNCHANGED walletState]_vars

C19_Witness ==
    /\ reply = Reply("LOCK_WALLET", TRUE, "")
    /\ ~isUnlocked /\ currentPrivateKey = NULL
    /\ Len(accounts) = MaxAccounts /\ currentAccountIndex = MaxAccounts - 1

\* C20: SWITCH_ACCOUNT with an index out of range fails and changes nothing;
\* without a password it makes the index current and ends locked with
\* currentPrivateKey null; with a password that fails decryption it changes
\* nothing; with one that decrypts the account it makes the index current and
\* ends unlocked with the secret of the account at that index.
C20_Switch ==
    [][/\ \A accountIndex \in -1..MaxAccounts :
             /\ handleSwitchAccountInvalid(accountIndex) =>
                    ~reply'.success /\ UNCHANGED <<walletState, storage>>
             /\ handleSwitchAccountLocked(accountIndex) =>
                    /\ currentAccountIndex' = accountIndex
                    /\ ~isUnlocked' /\ currentPrivateKey' = NULL
       /\ \A s \in Slots :
             (Suspended(s, "switch") /\ handleSwitchAccountDecrypted(s)) =>
                 IF inflight[s].privateKey = DecryptFailed
                 THEN ~reply'.success /\ UNCHANGED <<walletState, storage>>
                 ELSE /\ currentAccountIndex' = inflight[s].accountIndex
                      /\ isUnlocked'
                      /\ currentAccountIndex' < Len(accounts')
                      /\ currentPrivateKey' = accounts'[currentAccountIndex' + 1].encryptedPrivateKey.pt]_vars
\* C21: RENAME_ACCOUNT fails and changes nothing when the index is out of range
\* or the name is empty after trimming; otherwise it succeeds, sets the name of
\* that account to the trimmed name and leaves every other field of every
\* account, the order, currentAccountIndex, isUnlocked and currentPrivateKey as
\* they were.
C21_RenameFrame ==
    [][\A i \in -1..MaxAccounts, newName \in NewNames :
          handleRenameAccount(i, newName) =>
              IF i < 0 \/ i >= Len(accounts) \/ Trim(newName) = ""
              THEN ~reply'.success /\ UNCHANGED <<walletState, storage>>
              ELSE /\ reply' = Reply("RENAME_ACCOUNT", TRUE, "")
                   /\ Len(accounts') = Len(accounts)
                   /\ accounts'[i + 1].name = Trim(newName)
                   /\ SubSeq(Trim(newName), 1, 1) # " "
                   /\ \A j \in 1..Len(accounts) :
                          /\ accounts'[j].address = accounts[j].address
                          /\ accounts'[j].encryptedPrivateKey = accounts[j].encryptedPrivateKey
                          /\ j # i + 1 => accounts'[j] = accounts[j]
                   /\ UNCHANGED <<currentAccountIndex, isUnlocked, currentPrivateKey>>]_vars

C21_Witness ==
    /\ reply = Reply("RENAME_ACCOUNT", TRUE, "")
    /\ Len(accounts) = MaxAccounts
    /\ accounts[1].name = "Savings" /\ accounts[2].name = accountName(2)
    /\ isUnlocked
AccountCommands == {"CREATE_WALLET", "IMPORT_WALLET", "SWITCH_ACCOUNT", "RENAME_ACCOUNT", "DELETE_ACCOUNT"}
Answers(success) ==
    reply' # reply /\ reply'.type \in AccountCommands /\ reply'.success = success

\* C22: a create, import, switch, rename or delete that answers success:false,
\* a refused storage write included, leaves accounts, currentAccountIndex,
\* isUnlocked and currentPrivateKey as they were before the operation.
C22_FailureCommitsNothing ==
    [][Answers(FALSE) => UNCHANGED walletState]_vars

\* C23: when a create, import, switch, rename or delete answers success, the
\* stored accounts and currentAccountIndex equal the ones in memory, and the
\* store holds nothing but accounts of name, address and encryptedPrivateKey
\* and the index.
C23_StorageMirrorsMemory ==
    [][/\ Answers(TRUE) =>
             /\ storage'.accounts = accounts'
             /\ storage'.currentAccountIndex = currentAccountIndex'
       /\ DOMAIN storage' = {"accounts", "currentAccountIndex", "legacy"}
       /\ ~storage'.legacy.present
       /\ \A i \in 1..Len(storage'.accounts) :
             DOMAIN storage'.accounts[i] = {"name", "address", "encryptedPrivateKey"}]_vars
\* C28: every account of the list is encrypted under the same password, so the
\* password that unlocks one account unlocks every account.
C28_OneMasterPassword ==
    \A i \in 1..Len(accounts), j \in 1..Len(accounts), password \in StoragePasswords :
        decrypt(accounts[i].encryptedPrivateKey, password) # DecryptFailed
            => decrypt(accounts[j].encryptedPrivateKey, password) # DecryptFailed
Loading == \E s \in DOMAIN inflight : inflight[s].op \in {"load", "load_legacy", "load_remove"}

\* C24: the load of a store that holds only the old layout yields the single
\* account 'Account 1' with the old address and encrypted key and index 0,
\* writes it in the array form and removes the old keys; once removed the old
\* keys never come back, no load leaves them behind, and a load that finds the
\* array form leaves the store as it is.
C24_LegacyMigration ==
    [][/\ \A s \in Slots :
             (/\ Suspended(s, "load_legacy") /\ storage.legacy.present
              /\ loadWalletFromStorageMigrate(s)) =>
                 /\ accounts' = <<[name |-> "Account 1", address |-> storage.legacy.address,
                                   encryptedPrivateKey |-> storage.legacy.encryptedPrivateKey]>>
                 /\ currentAccountIndex' = 0
                 /\ storage'.accounts = accounts' /\ storage'.currentAccountIndex = 0
       /\ \A s \in Slots :
             (Suspended(s, "load_remove") /\ loadWalletFromStorageRemove(s)) =>
                 ~storage'.legacy.present /\ storage'.accounts = storage.accounts
       /\ \A s \in Slots :
             (/\ Suspended(s, "load") /\ Len(inflight[s].result.accounts) > 0
              /\ loadWalletFromStorageGot(s)) =>
                 /\ UNCHANGED storage
                 /\ accounts' = inflight[s].result.accounts
                 /\ currentAccountIndex' = inflight[s].result.currentAccountIndex
       /\ ~storage.legacy.present => ~storage'.legacy.present
       /\ ~Loading' => ~storage'.legacy.present]_vars

C24_Witness ==
    /\ ~Loading
    /\ accounts = <<[name |-> "Account 1", address |-> LegacyAccount.address,
                     encryptedPrivateKey |-> LegacyAccount.encryptedPrivateKey]>>
    /\ storage = [accounts |-> accounts, currentAccountIndex |-> 0, legacy |-> NoLegacy]
    /\ isUnlocked /\ currentPrivateKey = LegacyAccount.encryptedPrivateKey.pt
    /\ reply = ReplyData("GET_WALLET_STATUS", walletStatus)

\* C29: with a non-empty stored account list, a status query is answered from
\* the stored accounts (hasWallet, their number, the stored index), also while
\* loadWalletFromStorage is in flight, and no command makes the stored list
\* shorter.
C29_PersistedAccountsSeen ==
    [][/\ (Len(storage.accounts) > 0 /\ handleGetWalletStatus) =>
             /\ reply'.data.hasWallet
             /\ reply'.data.totalAccounts = Len(storage.accounts)
             /\ reply'.data.currentAccountIndex = storage.currentAccountIndex
       /\ Len(storage'.accounts) >= Len(storage.accounts)]_vars
\* C25: when two wallet commands have been handled, however they interleaved at
\* their awaits, the wallet state is the one that running them one after the
\* other, in one of the two orders, gives.
C25_Serializable ==
    (Len(commands) = MaxCommands /\ inflight = <<>>) =>
        \E p \in Permutations(1..MaxCommands) :
            CurrentWallet = runSerially(LoadedWallet, [i \in 1..MaxCommands |-> commands[p[i]]])
UniformFailure(type) ==
    /\ reply' = Reply(type, FALSE, "Incorrect password or corrupted data")
    /\ UNCHANGED <<walletState, storage>>

\* C26: an UNLOCK_WALLET or a SWITCH_ACCOUNT with a password that fails on the
\* password or on the stored blob answers 'Incorrect password or corrupted
\* data' and leaves the wallet state as it was, whichever of the two it was.
C26_UniformFailure ==
    [][/\ \A password \in LoadedPasswords :
             handleUnlockWalletMalformed(password) => UniformFailure("UNLOCK_WALLET")
       /\ \A s \in Slots :
             (/\ Suspended(s, "unlock") /\ Rejected(inflight[s].privateKey)
              /\ handleUnlockWalletFinish(s)) => UniformFailure("UNLOCK_WALLET")
       /\ \A accountIndex \in 0..MaxAccounts, password \in LoadedPasswords :
             handleSwitchAccountMalformed(accountIndex, password) => UniformFailure("SWITCH_ACCOUNT")
       /\ \A s \in Slots :
             (/\ Suspended(s, "switch") /\ Rejected(inflight[s].privateKey)
              /\ handleSwitchAccountDecrypted(s)) => UniformFailure("SWITCH_ACCOUNT")]_vars
\* the secrets the worker holds, and the strings of a response
KeyMaterial ==
    ({KeyText(accounts[i].encryptedPrivateKey.pt) : i \in 1..Len(accounts)}
     \cup {KeyText(currentPrivateKey)}
     \cup {KeyText(inflight[s].privateKey) :
              s \in {t \in DOMAIN inflight : inflight[t].op \in {"create", "import", "unlock"}}})
    \ {KeyText(NULL), KeyText(DecryptFailed)}
ReplyStrings(r) ==
    {r.error} \cup
    CASE r.type = "GET_ACCOUNTS" ->
             UNION {{r.data.accounts[i].name, r.data.accounts[i].address} : i \in DOMAIN r.data.accounts}
      [] r.type = "SIGN_REQUEST_DATA" -> {r.data.unsignedTx, r.data.details}
      [] OTHER -> {r.data.address, r.data.accountName}

C30_PagePromise ==
    [][/\ \A s \in Slots :
             (Suspended(s, "approve") /\ handleApproveSignFinish(s)) =>
                 pagePromise(calls'[inflight[s].request.call]) = PageResolved(inflight[s].signedTx)
       /\ \A i \in 1..Len(calls) :
             (pagePromise(calls[i]).state # "resolved" /\ pagePromise(calls'[i]).state = "resolved") =>
                 \E s \in Slots : /\ Suspended(s, "approve") /\ inflight[s].request.call = i
                                   /\ handleApproveSignFinish(s)
       /\ \A in \in SignRequests :
             (~isUnlocked /\ pageSignTransaction(in.requestId, in.unsignedTx, in.details)) =>
                 pagePromise(calls'[Len(calls')]).state = "rejected"
       /\ \A requestId \in RequestIds :
             (/\ requestId \in DOMAIN pendingSignRequests
              /\ handleRejectSign(requestId) \/ handleApproveSignThrows(requestId)) =>
                 pagePromise(calls'[pendingSignRequests[requestId].call]).state = "rejected"
       /\ pageSignTransactionMissing =>
             /\ pagePromise(calls'[Len(calls')]) = PageRejected("Missing unsignedTx parameter")
             /\ UNCHANGED <<walletState, pendingSignRequests, inflight, reply>>]_vars
\* ------------------------------------------- content.js: getAddress
NoWalletMessage == "No wallet found. Please create or import a wallet first."
AddressResolved(address) == [state |-> "resolved", address |-> address, error |-> ""]
AddressRejected(error) == [state |-> "rejected", address |-> "", error |-> error]
\* the bridge turns the worker's answer to GET_WALLET_STATUS into the
\* COUNTERPARTY_WALLET_RESPONSE of the page's request
getAddressResponse(response) ==
    IF response.success /\ response.data.hasWallet
    THEN [success |-> TRUE, address |-> response.data.address, error |-> ""]
    ELSE [success |-> FALSE, address |-> "", error |-> NoWalletMessage]
\* handleResponse of getAddress settles the page's promise; address "" is null
getAddress(event) ==
    IF event.success THEN AddressResolved(event.address)
    ELSE AddressRejected(IF event.error = "" THEN "Failed to get address" ELSE event.error)

\* C31: getAddress resolves with the address of accounts[currentAccountIndex]
\* whenever an account exists, locked or unlocked, rejects with 'No wallet found.
\* Please create or import a wallet first.' when none exists, and neither creates
\* a pending request nor changes the wallet state.
C31_GetAddress ==
    [][handleGetWalletStatus =>
          /\ UNCHANGED <<walletState, storage, pendingSignRequests, calls>>
          /\ IF Len(accounts) > 0
             THEN /\ currentAccountIndex < Len(accounts)
                  /\ getAddress(getAddressResponse(reply')) =
                         AddressResolved(accounts[currentAccountIndex + 1].address)
             ELSE getAddress(getAddressResponse(reply')) = AddressRejected(NoWalletMessage)]_vars
\* C39: whenever the wallet is unlocked, currentPrivateKey is in the encoding
\* that decodeWIF takes, so that an approval after CREATE_WALLET, or after
\* UNLOCK_WALLET of a created account, does not fail in decodeWIF.
C39_KeyIsWif ==
    /\ isUnlocked => decodeWIFSucceeds(currentPrivateKey)
    /\ \A i \in 1..Len(calls) :
           calls[i].response.error # "Failed to sign transaction locally: Invalid WIF character"
\* ------------------------------------ content.js / inject.js: the page API
\* One record per call of getAddress, signTransaction or isUnlocked: the
\* requestId the call made up, the index in calls of the SIGN_TRANSACTION message
\* sent for it (0: none), the COUNTERPARTY_WALLET_RESPONSE that the bridge posted
\* for it (event) and whether the window has dispatched it, whether
\* handleResponse is still a listener of the window, whether the timer of
\* setTimeout is still to fire, and the promise.
NoEvent == [requestId |-> "", success |-> FALSE, data |-> NoData, error |-> ""]
PageCall(api, requestId, call, event) ==
    [api |-> api, requestId |-> requestId, call |-> call, event |-> event,
     dispatched |-> FALSE, listener |-> TRUE, timer |-> TRUE, promise |-> PagePending]
\* 'sign_' + Date.now() + '_' + Math.random()...: an id no earlier call has
NewRequestId(prefix) == prefix \o ToString(Len(page) + 1)

\* variant: a settled promise is settled again
settleAgain(promise, outcome) == outcome
\* resolve and reject act on a pending promise only
settle(promise, outcome) == IF promise = PagePending THEN outcome ELSE promise

\* what handleResponse of the api passes to resolve or reject
outcomeOf(api, event) ==
    IF ~event.success
    THEN PageRejected(IF event.error # "" THEN event.error
                      ELSE IF api = "getAddress" THEN "Failed to get address"
                      ELSE IF api = "signTransaction" THEN "Failed to sign transaction"
                      ELSE "Failed to check status")
    ELSE IF api = "getAddress" THEN AddressResolved(event.data.address)
    ELSE IF api = "signTransaction" THEN PageResolved(event.data.signedTx)
    ELSE [state |-> "resolved", isUnlocked |-> event.data.isUnlocked]

\* variant: handleResponse does not look at the requestId
handleResponseAnyId(p, event) ==
    IF p.listener
    THEN [p EXCEPT !.listener = FALSE, !.promise = settle(@, outcomeOf(p.api, event))]
    ELSE p
\* handleResponse of call p on a COUNTERPARTY_WALLET_RESPONSE event
handleResponse(p, event) ==
    IF p.listener /\ event.requestId = p.requestId
    THEN [p EXCEPT !.listener = FALSE, !.promise = settle(@, outcomeOf(p.api, event))]
    ELSE p

\* getAddress(): the bridge asks GET_WALLET_STATUS and posts its answer
apiGetAddress ==
    /\ Len(page) < MaxCalls
    /\ handleGetWalletStatus
    /\ LET response == getAddressResponse(reply')
           requestId == NewRequestId("addr_")
       IN  page' = Append(page, PageCall("getAddress", requestId, 0,
                              [requestId |-> requestId, success |-> response.success,
                               data |-> [address |-> response.address],
                               error |-> response.error]))
    /\ UNCHANGED <<commands, lib>>

\* isUnlocked(): the bridge asks GET_WALLET_STATUS and posts two of its fields
apiIsUnlocked ==
    /\ Len(page) < MaxCalls
    /\ handleGetWalletStatus
    /\ LET requestId == NewRequestId("status_")
       IN  page' = Append(page, PageCall("isUnlocked", requestId, 0,
                              [requestId |-> requestId, success |-> TRUE,
                               data |-> [isUnlocked |-> reply'.data.isUnlocked,
                                         hasWallet |-> reply'.data.hasWallet],
                               error |-> ""]))
    /\ UNCHANGED <<commands, lib>>

\* signTransaction(params): the bridge sends SIGN_TRANSACTION under an id of its
\* own and posts nothing until the worker answers
apiSignTransaction(requestId, unsignedTx, details) ==
    /\ Len(page) < MaxCalls
    /\ pageSignTransaction(requestId, unsignedTx, details)
    /\ page' = Append(page, PageCall("signTransaction", NewRequestId("sign_"), Len(calls) + 1, NoEvent))
    /\ UNCHANGED <<commands, lib>>

\* the worker has answered SIGN_TRANSACTION: the bridge posts success, data and
\* error of the answer under the page's requestId
bridgePost(k) ==
    /\ k \in 1..Len(page)
    /\ page[k].call > 0 /\ page[k].event = NoEvent
    /\ calls[page[k].call].response.state # "none"
    /\ LET response == calls[page[k].call].response
       IN  page' = [page EXCEPT ![k].event =
                       [requestId |-> page[k].requestId,
                        success |-> response.state = "success",
                        data |-> [signedTx |-> response.signedTx],
                        error |-> response.error]]
    /\ UNCHANGED <<walletState, storage, pendingSignRequests, calls, inflight, reply, commands, lib>>

\* the window dispatches the posted event of call k to every listener
dispatchEvent(k) ==
    /\ k \in 1..Len(page)
    /\ page[k].event # NoEvent /\ ~page[k].dispatched
    /\ page' = [j \in 1..Len(page) |->
                   [handleResponse(page[j], page[k].event) EXCEPT
                       !.dispatched = IF j = k THEN TRUE ELSE @]]
    /\ UNCHANGED <<walletState, storage, pendingSignRequests, calls, inflight, reply, commands, lib>>

\* the timer of call k fires (it is never cleared): the listener is removed and
\* reject is called
timerFires(k) ==
    /\ k \in 1..Len(page)
    /\ page[k].timer
    /\ page' = [page EXCEPT ![k].timer = FALSE, ![k].listener = FALSE,
                            ![k].promise = settle(@, PageRejected("Request timed out"))]
    /\ UNCHANGED <<walletState, storage, pendingSignRequests, calls, inflight, reply, commands, lib>>

\* The page API over the request coordinator: a wallet that is imported once,
\* the calls of the page, the user's decisions, the posts of the bridge, the
\* dispatches of the window and the timers.
PromiseImport == [address |-> "1Alice", privateKey |-> WifKey(1, 51), password |-> "passw0rd-A"]

NextPromise ==
    \/ Ready /\ apiGetAddress
    \/ Ready /\ apiIsUnlocked
    \/ Ready /\ (\E in \in SignRequests : apiSignTransaction(in.requestId, in.unsignedTx, in.details))
    \/ Ready /\ (\E in \in SignRequests : handleApproveSign(in.requestId)) /\ UNCHANGED <<commands, page, lib>>
    \/ Ready /\ (\E in \in SignRequests : handleRejectSign(in.requestId)) /\ UNCHANGED <<commands, page, lib>>
    \/ Ready /\ SigningResume /\ UNCHANGED <<commands, page, lib>>
    \/ Ready /\ AccountsQuiet
             /\ handleImportWalletStart(PromiseImport.address, PromiseImport.privateKey, PromiseImport.password)
             /\ UNCHANGED <<commands, page, lib>>
    \/ Ready /\ (\E s \in Slots : handleImportWalletFinish(s)) /\ UNCHANGED <<commands, page, lib>>
    \/ responseDelivered /\ UNCHANGED <<commands, page, lib>>
    \/ \E k \in 1..MaxCalls : bridgePost(k)
    \/ \E k \in 1..MaxCalls : dispatchEvent(k)
    \/ \E k \in 1..MaxCalls : timerFires(k)

\* a timer that was set fires: setTimeout's callback is run after its delay
SpecPromise == Init /\ [][NextPromise]_vars /\ \A k \in 1..MaxCalls : WF_vars(timerFires(k))
\* C40: a promise of the page API settles, and settles once: on the first response that
\* carries its requestId, or with 'Request timed out' when its timer fires
\* first; a later response, a later timeout and the responses of other
\* requestIds leave it as it is, and a timeout of the page leaves the worker's
\* pending entry in place.
C40_SettlesOnce ==
    [][/\ \A k \in 1..Len(page) :
             /\ page[k].promise # PagePending => page'[k].promise = page[k].promise
             /\ (page[k].promise = PagePending /\ page'[k].promise # PagePending) =>
                    \/ timerFires(k) /\ page'[k].promise = PageRejected("Request timed out")
                    \/ /\ dispatchEvent(k) /\ page[k].event.requestId = page[k].requestId
                       /\ page'[k].promise = outcomeOf(page[k].api, page[k].event)
             /\ dispatchEvent(k) =>
                    \A j \in 1..Len(page) : j # k => page'[j].promise = page[j].promise
             /\ timerFires(k) => UNCHANGED <<pendingSignRequests, calls, walletState>>
       /\ \A k \in 1..Len(page') : k > Len(page) => page'[k].promise = PagePending]_vars
    /\ \A k \in 1..MaxCalls :
           [](Len(page) >= k => <>(Len(page) >= k /\ page[k].promise # PagePending))

\* a response was dispatched after the timeout of its call had rejected the
\* promise, and on another call the timer fired after the response had resolved
\* the promise
C40_Witness ==
    \E k, j \in 1..Len(page) :
        /\ page[k].api = "signTransaction" /\ page[k].dispatched
        /\ page[k].promise = PageRejected("Request timed out")
        /\ page[j].api = "signTransaction" /\ ~page[j].timer
        /\ page[j].promise.state = "resolved"
\* ===================================================== BitcoinSigner, by itself
\* Bytes are the numbers 0..255, a Uint8Array is a sequence of them, offsets are
\* 0-based as in the source, and a hex text is a string of the digits 0-9a-f.
\* What a call gave: the value it returned, or the message of the Error it threw.
Returned(value) == [threw |-> FALSE, value |-> value, error |-> ""]
Threw(error) == [threw |-> TRUE, value |-> <<>>, error |-> error]
NoResult == [threw |-> FALSE, value |-> <<>>, error |-> "not called"]

\* the parts of a sequence of byte arrays, or of texts, put together
RECURSIVE Concat(_)
Concat(parts) ==
    IF Len(parts) = 0 THEN <<>>
    ELSE IF Len(parts) = 1 THEN parts[1]
    ELSE Concat(SubSeq(parts, 1, Len(parts) \div 2))
             \o Concat(SubSeq(parts, Len(parts) \div 2 + 1, Len(parts)))
RECURSIVE Join(_)
Join(parts) ==
    IF Len(parts) = 0 THEN ""
    ELSE IF Len(parts) = 1 THEN parts[1]
    ELSE Join(SubSeq(parts, 1, Len(parts) \div 2))
             \o Join(SubSeq(parts, Len(parts) \div 2 + 1, Len(parts)))

HexDigits == "0123456789abcdef"
HexDigit(v) == SubSeq(HexDigits, v + 1, v + 1)
DigitValue(c) == CHOOSE v \in 0..15 : HexDigit(v) = c
\* b.toString(16).padStart(2, '0') of every byte, joined
bytesToHex(bytes) ==
    Join([i \in 1..Len(bytes) |-> HexDigit(bytes[i] \div 16) \o HexDigit(bytes[i] % 16)])
\* new Uint8Array(hex.length / 2), filled by parseInt of each pair of digits; the
\* odd digit at the end of a text of odd length is not read
hexToBytes(hex) ==
    [i \in 1..(Len(hex) \div 2) |->
        16 * DigitValue(SubSeq(hex, 2 * i - 1, 2 * i - 1)) + DigitValue(SubSeq(hex, 2 * i, 2 * i))]

\* bytes[offset]: past the end it is undefined, which is 0 under | and <<, makes
\* the bound of a loop (i < undefined) false at once, and as a length gives an
\* empty slice and an offset (NaN) at which every later read is past the end too
ByteAt(bytes, offset) == IF offset < Len(bytes) THEN bytes[offset + 1] ELSE 0
\* bytes.slice(start, end): what there is of it
Slice(bytes, start, end) == SubSeq(bytes, start + 1, IF end < Len(bytes) THEN end ELSE Len(bytes))

\* A JavaScript number n that a 32-bit operation gave or takes is held as the two
\* halves of n = hi * 65536 + lo with 0 <= lo < 65536; 0xFFFFFFFF is
\* UInt32(65535, 65535) and -1 is UInt32(-1, 65535).
UInt32(hi, lo) == [hi |-> hi, lo |-> lo]
\* b0 | (b1 << 8) | (b2 << 16) | (b3 << 24): << and | give a signed 32-bit number
readUInt32LE(bytes, offset) ==
    UInt32(ByteAt(bytes, offset + 2) + 256 * ByteAt(bytes, offset + 3)
               - (IF ByteAt(bytes, offset + 3) >= 128 THEN 65536 ELSE 0),
           ByteAt(bytes, offset) + 256 * ByteAt(bytes, offset + 1))
\* num & 0xff, (num >> 8) & 0xff, (num >> 16) & 0xff, (num >> 24) & 0xff
uint32ToBytes(num) ==
    <<num.lo % 256, (num.lo \div 256) % 256, num.hi % 256, (num.hi \div 256) % 256>>

\* the loop over the inputs, from its i-th round on
RECURSIVE parseInputs(_, _, _, _)
parseInputs(bytes, offset, inputCount, inputs) ==
    IF Len(inputs) >= inputCount THEN [inputs |-> inputs, offset |-> offset]
    ELSE LET scriptLen == ByteAt(bytes, offset + 36)
             input == [hash |-> Slice(bytes, offset, offset + 32),
                       index |-> readUInt32LE(bytes, offset + 32),
                       script |-> Slice(bytes, offset + 37, offset + 37 + scriptLen),
                       sequence |-> readUInt32LE(bytes, offset + 37 + scriptLen)]
         IN  parseInputs(bytes, offset + 41 + scriptLen, inputCount, Append(inputs, input))

RECURSIVE parseOutputs(_, _, _, _)
parseOutputs(bytes, offset, outputCount, outputs) ==
    IF Len(outputs) >= outputCount THEN [outputs |-> outputs, offset |-> offset]
    ELSE LET scriptLen == ByteAt(bytes, offset + 8)
             output == [value |-> Slice(bytes, offset, offset + 8),
                        script |-> Slice(bytes, offset + 9, offset + 9 + scriptLen)]
         IN  parseOutputs(bytes, offset + 9 + scriptLen, outputCount, Append(outputs, output))

\* no statement of parseTransaction throws
parseTransaction(txHex) ==
    LET bytes == hexToBytes(txHex)
        ins == parseInputs(bytes, 5, ByteAt(bytes, 4), <<>>)
        outs == parseOutputs(bytes, ins.offset + 1, ByteAt(bytes, ins.offset), <<>>)
    IN  [version |-> readUInt32LE(bytes, 0), inputs |-> ins.inputs,
         outputs |-> outs.outputs, locktime |-> readUInt32LE(bytes, outs.offset)]

\* new Uint8Array(data) keeps the low eight bits of a count or a length
serializeInput(input) ==
    input.hash \o uint32ToBytes(input.index) \o <<Len(input.script) % 256>> \o input.script
               \o uint32ToBytes(input.sequence)
serializeOutput(output) == output.value \o <<Len(output.script) % 256>> \o output.script
serializeTransaction(tx) ==
    bytesToHex(uint32ToBytes(tx.version)
               \o <<Len(tx.inputs) % 256>>
               \o Concat([i \in 1..Len(tx.inputs) |-> serializeInput(tx.inputs[i])])
               \o <<Len(tx.outputs) % 256>>
               \o Concat([i \in 1..Len(tx.outputs) |-> serializeOutput(tx.outputs[i])])
               \o uint32ToBytes(tx.locktime))

\* ------------------------------------------------- transactions to work on
\* unsigned 32-bit values on both sides of 2^31: 0, 1, 0x80000000, 0xFFFFFFFF
Words == {UInt32(0, 0), UInt32(0, 1), UInt32(32768, 0), UInt32(65535, 65535)}
Scripts == {[i \in 1..n |-> 118] : n \in 0..MaxScript}
SeqsUpTo(S, n) == UNION {[1..m -> S] : m \in 0..n}
TxInputs ==
    {[hash |-> [i \in 1..32 |-> 17], index |-> UInt32(0, 1), script |-> script, sequence |-> sequence] :
        script \in Scripts, sequence \in {UInt32(0, 0), UInt32(65535, 65535)}}
TxOutputs == {[value |-> <<232, 3, 0, 0, 0, 0, 0, 0>>, script |-> <<118, 169>>]}
Transactions ==
    {[version |-> UInt32(0, 1), inputs |-> inputs, outputs |-> outputs, locktime |-> locktime] :
        inputs \in SeqsUpTo(TxInputs, MaxInputs), outputs \in SeqsUpTo(TxOutputs, MaxOutputs),
        locktime \in {UInt32(0, 0), UInt32(32768, 0)}}

\* A transaction is serialized, the text is perhaps cut short, and the text is
\* parsed.
\* the worker and the page at rest, while a library call is looked at
rest == <<walletState, storage, pendingSignRequests, calls, inflight, reply, commands, page>>
AtRest ==
    /\ isUnlocked = FALSE /\ currentAccountIndex = 0 /\ accounts = <<>> /\ currentPrivateKey = NULL
    /\ pendingSignRequests = [x \in {} |-> 0] /\ calls = <<>> /\ inflight = <<>>
    /\ reply = NoReply /\ commands = <<>> /\ storage = EmptyStorage /\ page = <<>>

InitTransaction ==
    /\ AtRest
    /\ \E tx \in Transactions :
          lib = [fn |-> "transaction", tx |-> tx, hex |-> "", cut |-> FALSE,
                 parsed |-> NoResult, pc |-> "tx"]

serializeTransactionCall ==
    /\ lib.fn = "transaction" /\ lib.pc = "tx"
    /\ lib' = [lib EXCEPT !.hex = serializeTransaction(lib.tx), !.pc = "hex"]
    /\ UNCHANGED rest

\* the caller passes on the first k digits only
cutShort(k) ==
    /\ lib.fn = "transaction" /\ lib.pc = "hex"
    /\ k < Len(lib.hex)
    /\ lib' = [lib EXCEPT !.hex = SubSeq(lib.hex, 1, k), !.cut = TRUE, !.pc = "cut"]
    /\ UNCHANGED rest

parseTransactionCall ==
    /\ lib.fn = "transaction" /\ lib.pc \in {"hex", "cut"}
    /\ lib' = [lib EXCEPT !.parsed = Returned(parseTransaction(lib.hex)), !.pc = "parsed"]
    /\ UNCHANGED rest

\* the longest text of Transactions has this many digits
MaxDigits == 2 * (10 + 42 * MaxInputs + 11 * MaxOutputs + MaxScript * MaxInputs)

NextTransaction ==
    \/ serializeTransactionCall
    \/ \E k \in 0..MaxDigits : cutShort(k)
    \/ parseTransactionCall

SpecTransaction == InitTransaction /\ [][NextTransaction]_vars

\* C34: parseTransaction(serializeTransaction(t)) = t for every transaction
\* whose counts and script lengths fit in one byte, whatever unsigned 32-bit
\* values its version, previous index, sequence and locktime are; in particular
\* readUInt32LE(uint32ToBytes(n)) = n for every n in 0 .. 2^32-1.
C34_RoundTrip ==
    (lib.fn = "transaction" /\ lib.pc = "parsed" /\ ~lib.cut) =>
        /\ lib.parsed = Returned(lib.tx)
        /\ readUInt32LE(uint32ToBytes(lib.tx.locktime), 0) = lib.tx.locktime

\* C33: parseTransaction does not read past the end of its input: on every
\* strict prefix of the text of a well-formed transaction it fails with an
\* error and returns no transaction.
C33_TruncationFails ==
    (lib.fn = "transaction" /\ lib.pc = "parsed" /\ lib.cut) => lib.parsed.threw
\* --------------------------------------------------- BitcoinSigner.decodeWIF
ALPHABET == "123456789ABCDEFGHJKLMNPQRSTUVWXYZabcdefghijkmnopqrstuvwxyz"
\* ALPHABET.indexOf(char)
indexOf(char) ==
    IF \E v \in 0..57 : SubSeq(ALPHABET, v + 1, v + 1) = char
    THEN CHOOSE v \in 0..57 : SubSeq(ALPHABET, v + 1, v + 1) = char
    ELSE -1

\* A BigInt is held as its digits to the base 2^24, most significant first and
\* without leading zeros (0n has none).
Limb == 256 * 256 * 256
\* decoded * 58n + BigInt(value)
RECURSIVE timesPlus(_, _, _)
timesPlus(decoded, factor, carry) ==
    IF carry = 0 /\ decoded = <<>> THEN <<>>
    ELSE IF decoded = <<>> THEN <<carry>>
    ELSE LET t == decoded[Len(decoded)] * factor + carry
         IN  timesPlus(SubSeq(decoded, 1, Len(decoded) - 1), factor, t \div Limb) \o <<t % Limb>>

\* decoded.toString(16), padded to an even number of digits, as bytes: 0n is 00
bigIntBytes(decoded) ==
    IF decoded = <<>> THEN <<0>>
    ELSE LET top == decoded[1]
         IN  (IF top < 256 THEN <<top>>
              ELSE IF top < 65536 THEN <<top \div 256, top % 256>>
              ELSE <<top \div 65536, (top \div 256) % 256, top % 256>>)
             \o [i \in 1..(3 * (Len(decoded) - 1)) |->
                    LET limb == decoded[2 + (i - 1) \div 3]
                    IN  IF (i - 1) % 3 = 0 THEN limb \div 65536
                        ELSE IF (i - 1) % 3 = 1 THEN (limb \div 256) % 256
                        ELSE limb % 256]
\* bytes.slice(1, -4)
stripped(bytes) == SubSeq(bytes, 2, Len(bytes) - 4)

\* what decodeWIF returns once the loop has run through
decodeWIFResult(decoded) ==
    LET privateKeyBytes == stripped(bigIntBytes(decoded))
    IN  IF Len(privateKeyBytes) = 33 THEN SubSeq(privateKeyBytes, 1, 32) ELSE privateKeyBytes

\* The texts decodeWIF is tried on: every text of up to MaxChars characters over
\* five characters, two of them (0 and O) outside the alphabet; the WIF of the key
\* 01 02 .. 20, uncompressed and compressed; the compressed one without its last
\* three characters and with an l in it; and two keys as generatePrivateKey makes
\* them, 64 hex digits with and without the digit 0.
WifChars == {"1", "K", "z", "0", "O"}
RECURSIVE Texts(_)
Texts(n) == IF n = 0 THEN {""} ELSE Texts(n - 1) \cup {s \o c : s \in Texts(n - 1), c \in WifChars}
WifTexts ==
    Texts(MaxChars)
    \cup {"5HpjKrb7dH5kKQQzmbjB87Mxova7mek5bXUTWfndcX6tBoqUwzm",
          "KwFfpDsaF7yxCELuyrH9gP5XL7TAt5b9HPWC1xCQbmrxvhJgMQHb",
          "KwFfpDsaF7yxCELuyrH9gP5XL7TAt5b9HPWC1xCQbmrxvhJgM",
          "KwFfpDsaF7yxCELuyrH9gP5XL7TAt5b9HPWC1xCQbmrxvhJglQHb",
          "0102030405060708090a0b0c0d0e0f101112131415161718191a1b1c1d1e1f20",
          "a1b2c3d4e5f6a7b8c9d1e2f3a4b5c6d7e8f9a1b2c3d4e5f6a7b8c9d1e2f3a4b5"}

\* a call of decodeWIF: i characters of wif are read and decoded is their number
DecodeCall(wif) ==
    [fn |-> "decodeWIF", wif |-> wif, i |-> 0, decoded |-> <<>>, result |-> NoResult, pc |-> "loop"]

InitWIF ==
    /\ AtRest
    /\ \E wif \in WifTexts : lib = DecodeCall(wif)

\* one round of the loop
decodeWIFChar ==
    /\ lib.fn \in {"decodeWIF", "signTransaction"} /\ lib.pc = "loop"
    /\ lib.i < Len(lib.wif)
    /\ LET value == indexOf(SubSeq(lib.wif, lib.i + 1, lib.i + 1))
       IN  IF value = -1
           THEN lib' = [lib EXCEPT !.result = Threw("Invalid WIF character"), !.pc = "decoded"]
           ELSE lib' = [lib EXCEPT !.decoded = timesPlus(@, 58, value), !.i = @ + 1]
    /\ UNCHANGED rest

\* the statements after the loop
decodeWIFReturn ==
    /\ lib.fn \in {"decodeWIF", "signTransaction"} /\ lib.pc = "loop"
    /\ lib.i = Len(lib.wif)
    /\ lib' = [lib EXCEPT !.result = Returned(decodeWIFResult(lib.decoded)), !.pc = "decoded"]
    /\ UNCHANGED rest

NextWIF ==
    \/ decodeWIFChar
    \/ decodeWIFReturn

SpecWIF == InitWIF /\ [][NextWIF]_vars

InAlphabet(wif) == \A i \in 1..Len(wif) : indexOf(SubSeq(wif, i, i)) # -1

\* C35: decodeWIF fails on a text with a character outside the alphabet, fails
\* when what is left after the version byte and the four checksum bytes are taken
\* off is not 32 or 33 bytes long, and returns exactly 32 bytes when it succeeds.
C35_DecodeWIF ==
    (lib.fn = "decodeWIF" /\ lib.pc = "decoded") =>
        /\ ~InAlphabet(lib.wif) => lib.result = Threw("Invalid WIF character")
        /\ (InAlphabet(lib.wif) /\ Len(stripped(bigIntBytes(lib.decoded))) \notin {32, 33}) =>
               lib.result.threw
        /\ ~lib.result.threw => Len(lib.result.value) = 32
\* ============================================================ RIPEMD-160
\* ripemd160-wrapper.js has the function twice: nobleRipemd160.ripemd160 and
\* BitcoinSigner.ripemd160, which hash160 calls.  A 32-bit word is the UInt32 of
\* its two halves, both in 0..65535; | 0 of the one and >>> 0 of the other keep
\* the same 32 bits.
\* An array holds its elements: they are worked out once, when it is made.
Array(elements) == elements \o <<>>

RECURSIVE bits(_, _, _, _)
bits(op, a, b, n) ==
    IF n = 0 THEN 0
    ELSE (IF op = "^" THEN (a + b) % 2
          ELSE IF op = "&" THEN (a % 2) * (b % 2)
          ELSE ((a % 2) + (b % 2)) - ((a % 2) * (b % 2)))
         + 2 * bits(op, a \div 2, b \div 2, n - 1)
\* op on two halves, a byte at a time
half(op, a, b) == bits(op, a % 256, b % 256, 8) + 256 * bits(op, a \div 256, b \div 256, 8)
bitXor(x, y) == UInt32(half("^", x.hi, y.hi), half("^", x.lo, y.lo))
bitAnd(x, y) == UInt32(half("&", x.hi, y.hi), half("&", x.lo, y.lo))
bitOr(x, y) == UInt32(half("|", x.hi, y.hi), half("|", x.lo, y.lo))
bitNot(x) == UInt32(65535 - x.hi, 65535 - x.lo)
\* (x + y) | 0, (x + y) >>> 0
add(x, y) == UInt32((x.hi + y.hi + (x.lo + y.lo) \div 65536) % 65536, (x.lo + y.lo) % 65536)
\* (word << shift) | (word >>> (32 - shift)), for the shifts 5..15 of the tables
rotl(word, shift) ==
    UInt32(((word.hi * 2^shift) % 65536) + (word.lo \div 2^(16 - shift)),
           ((word.lo * 2^shift) % 65536) + (word.hi \div 2^(16 - shift)))

Kl == <<UInt32(0, 0), UInt32(23170, 31129), UInt32(28377, 60321), UInt32(36635, 48348), UInt32(43347, 64846)>>
Kr == <<UInt32(20642, 35814), UInt32(23629, 53540), UInt32(28016, 16115), UInt32(31341, 30441), UInt32(0, 0)>>
zl ==
    <<0, 1, 2, 3, 4, 5, 6, 7, 8, 9, 10, 11, 12, 13, 14, 15,
      7, 4, 13, 1, 10, 6, 15, 3, 12, 0, 9, 5, 2, 14, 11, 8,
      3, 10, 14, 4, 9, 15, 8, 1, 2, 7, 0, 6, 13, 11, 5, 12,
      1, 9, 11, 10, 0, 8, 12, 4, 13, 3, 7, 15, 14, 5, 6, 2,
      4, 0, 5, 9, 7, 12, 2, 10, 14, 1, 3, 8, 11, 6, 15, 13>>
zr ==
    <<5, 14, 7, 0, 9, 2, 11, 4, 13, 6, 15, 8, 1, 10, 3, 12,
      6, 11, 3, 7, 0, 13, 5, 10, 14, 15, 8, 12, 4, 9, 1, 2,
      15, 5, 1, 3, 7, 14, 6, 9, 11, 8, 12, 2, 10, 0, 4, 13,
      8, 6, 4, 1, 3, 11, 15, 0, 5, 12, 2, 13, 9, 7, 10, 14,
      12, 15, 10, 4, 1, 5, 8, 7, 6, 2, 13, 14, 0, 3, 9, 11>>
sl ==
    <<11, 14, 15, 12, 5, 8, 7, 9, 11, 13, 14, 15, 6, 7, 9, 8,
      7, 6, 8, 13, 11, 9, 7, 15, 7, 12, 15, 9, 11, 7, 13, 12,
      11, 13, 6, 7, 14, 9, 13, 15, 14, 8, 13, 6, 5, 12, 7, 5,
      11, 12, 14, 15, 14, 15, 9, 8, 9, 14, 5, 6, 8, 6, 5, 12,
      9, 15, 5, 11, 6, 8, 13, 12, 5, 12, 13, 14, 11, 8, 5, 6>>
sr ==
    <<8, 9, 9, 11, 13, 15, 15, 5, 7, 7, 8, 11, 14, 14, 12, 6,
      9, 13, 15, 7, 12, 8, 9, 11, 7, 7, 12, 7, 6, 15, 13, 11,
      9, 7, 15, 11, 8, 6, 6, 14, 12, 13, 5, 14, 13, 13, 7, 5,
      15, 5, 8, 11, 14, 14, 6, 14, 6, 9, 12, 9, 12, 5, 15, 8,
      8, 5, 12, 9, 12, 5, 14, 6, 8, 13, 6, 5, 15, 13, 11, 11>>
f(s, x, y, z) ==
    IF s = 0 THEN bitXor(bitXor(x, y), z)
    ELSE IF s = 1 THEN bitOr(bitAnd(x, y), bitAnd(bitNot(x), z))
    ELSE IF s = 2 THEN bitXor(bitOr(x, bitNot(y)), z)
    ELSE IF s = 3 THEN bitOr(bitAnd(x, z), bitAnd(y, bitNot(z)))
    ELSE bitXor(x, bitOr(y, bitNot(z)))

\* the first argument of f for the right lane in round j: f(4 - group, br, cr, dr)
\* in nobleRipemd160.ripemd160
nobleRight(j) == 4 - j \div 16
\* and f(br, cr, dr, (15 - (j >> 4)) % 5 + (j >= 64 ? 1 : 0)) in
\* BitcoinSigner.ripemd160
signerRight(j) == ((15 - j \div 16) % 5) + (IF j >= 64 THEN 1 ELSE 0)
rightSelector(impl, j) == IF impl = "nobleRipemd160" THEN nobleRight(j) ELSE signerRight(j)
\* both give the left lane f of j >> 4
leftSelector(impl, j) == j \div 16

\* one lane's part of a round: t = rotl(a + f + w + K, s) + e, then
\* a = e; e = d; d = rotl(c, 10); c = b; b = t
lane(v, fv, wv, kv, shift) ==
    <<v[5], add(rotl(add(add(add(v[1], fv), wv), kv), shift), v[5]), v[2], rotl(v[3], 10), v[4]>>
\* round j of the block whose words are w, on the lanes l = <<al, bl, cl, dl, el>>
\* and r = <<ar, br, cr, dr, er>>
round(impl, st, w, j) ==
    [l |-> lane(st.l, f(leftSelector(impl, j), st.l[2], st.l[3], st.l[4]),
                w[zl[j + 1] + 1], Kl[j \div 16 + 1], sl[j + 1]),
     r |-> lane(st.r, f(rightSelector(impl, j), st.r[2], st.r[3], st.r[4]),
                w[zr[j + 1] + 1], Kr[j \div 16 + 1], sr[j + 1])]
\* the rounds from, from + 1, ..., to - 1: the first half of them, and when
\* these are done the second half
RECURSIVE rounds(_, _, _, _, _)
rounds(impl, st, w, from, to) ==
    IF to - from = 1 THEN round(impl, st, w, from)
    ELSE LET first == rounds(impl, st, w, from, (from + to) \div 2)
         IN  IF DOMAIN first = {"l", "r"} THEN rounds(impl, first, w, (from + to) \div 2, to)
             ELSE first

h0to4 ==
    <<UInt32(26437, 8961), UInt32(61389, 43913), UInt32(39098, 56574),
      UInt32(4146, 21622), UInt32(50130, 57840)>>
\* data, 0x80, zeros up to a multiple of 64 bytes, with the number of bits as a
\* 32-bit little-endian word eight bytes before the end
padded(data) ==
    LET padLen == ((Len(data) + 8) \div 64 + 1) * 64
        bitLen == uint32ToBytes(UInt32((Len(data) * 8) \div 65536, (Len(data) * 8) % 65536))
    IN  Array([k \in 1..padLen |->
                  IF k <= Len(data) THEN data[k]
                  ELSE IF k = Len(data) + 1 THEN 128
                  ELSE IF k > padLen - 8 /\ k <= padLen - 4 THEN bitLen[k - (padLen - 8)]
                  ELSE 0])
\* w[j] = view.getUint32(i + j * 4, true)
blockWords(bytes, i) ==
    Array([j \in 1..16 |-> UInt32(bytes[i + 4 * j] * 256 + bytes[i + 4 * j - 1],
                                  bytes[i + 4 * j - 2] * 256 + bytes[i + 4 * j - 3])])
\* t = h1 + cl + dr; h1 = h2 + dl + er; h2 = h3 + el + ar; h3 = h4 + al + br;
\* h4 = h0 + bl + cr; h0 = t
combine(h, st) ==
    <<add(add(h[2], st.l[3]), st.r[4]), add(add(h[3], st.l[4]), st.r[5]),
      add(add(h[4], st.l[5]), st.r[1]), add(add(h[5], st.l[1]), st.r[2]),
      add(add(h[1], st.l[2]), st.r[3])>>
\* the five words, little-endian
output(h) == Concat([k \in 1..5 |-> uint32ToBytes(h[k])])

RECURSIVE blocks(_, _, _, _)
blocks(impl, bytes, i, h) ==
    IF i >= Len(bytes) THEN h
    ELSE blocks(impl, bytes, i + 64,
                combine(h, rounds(impl, [l |-> h, r |-> h], blockWords(bytes, i), 0, 80)))
nobleRipemd160(data) == output(blocks("nobleRipemd160", padded(data), 0, h0to4))
ripemd160(data) == output(blocks("BitcoinSigner", padded(data), 0, h0to4))

\* The messages "", "a", "abc", "message digest" and "abcdbcde...nopq" (two
\* blocks) with the digests that the publication of RIPEMD-160 gives for them.
Vectors ==
    {[data |-> <<>>,
      digest |-> "9c1185a5c5e9fc54612808977ee8f548b2258d31"],
     [data |-> <<97>>,
      digest |-> "0bdc9d2d256b3ee9daae347be6f4dc835a467ffe"],
     [data |-> <<97, 98, 99>>,
      digest |-> "8eb208f7e05d987a9b044a8e98c6b087f15a0bfc"],
     [data |-> <<109, 101, 115, 115, 97, 103, 101, 32, 100, 105, 103, 101, 115, 116>>,
      digest |-> "5d0689ef49d2fae572b881b123a85ffa21595f36"],
     [data |-> <<97, 98, 99, 100, 98, 99, 100, 101, 99, 100, 101, 102, 100, 101, 102, 103, 101, 102, 103, 104, 102, 103, 104, 105, 103, 104, 105, 106, 104, 105, 106, 107, 105, 106, 107, 108, 106, 107, 108, 109, 107, 108, 109, 110, 108, 109, 110, 111, 109, 110, 111, 112, 110, 111, 112, 113>>,
      digest |-> "12a053384a9c0c88e405a06c27dcf49ada62eb2b"]}
Implementations == {"nobleRipemd160", "BitcoinSigner"}

\* One call, round by round.
InitRipemd ==
    /\ AtRest
    /\ \E impl \in Implementations, v \in Vectors :
          lib = [fn |-> "ripemd160", impl |-> impl, data |-> v.data, bytes |-> padded(v.data),
                 i |-> 0, h |-> h0to4, w |-> <<>>, st |-> [l |-> h0to4, r |-> h0to4], j |-> 0,
                 result |-> NoResult, pc |-> "block"]
\* the head of the loop over the blocks
ripemd160Block ==
    /\ lib.fn = "ripemd160" /\ lib.pc = "block" /\ lib.i < Len(lib.bytes)
    /\ lib' = [lib EXCEPT !.w = blockWords(lib.bytes, lib.i), !.st = [l |-> lib.h, r |-> lib.h],
                          !.j = 0, !.pc = "round"]
    /\ UNCHANGED rest
ripemd160Round ==
    /\ lib.fn = "ripemd160" /\ lib.pc = "round" /\ lib.j < 80
    /\ lib' = [lib EXCEPT !.st = round(lib.impl, lib.st, lib.w, lib.j), !.j = lib.j + 1]
    /\ UNCHANGED rest
ripemd160Combine ==
    /\ lib.fn = "ripemd160" /\ lib.pc = "round" /\ lib.j = 80
    /\ lib' = [lib EXCEPT !.h = combine(lib.h, lib.st), !.i = lib.i + 64, !.pc = "block"]
    /\ UNCHANGED rest
ripemd160Return ==
    /\ lib.fn = "ripemd160" /\ lib.pc = "block" /\ lib.i >= Len(lib.bytes)
    /\ lib' = [lib EXCEPT !.result = Returned(output(lib.h)), !.pc = "done"]
    /\ UNCHANGED rest

NextRipemd ==
    \/ ripemd160Block
    \/ ripemd160Round
    \/ ripemd160Combine
    \/ ripemd160Return

SpecRipemd == InitRipemd /\ [][NextRipemd]_vars

\* C38: BitcoinSigner.ripemd160 and nobleRipemd160.ripemd160 compute the same
\* function: in every round j both give the right lane f of 4 - floor(j / 16) and
\* the left lane f of floor(j / 16), and both return the standard digest.
C38_SameFunction ==
    lib.fn = "ripemd160" =>
        /\ (lib.pc = "round" /\ lib.j < 80) =>
               /\ rightSelector(lib.impl, lib.j) = 4 - lib.j \div 16
               /\ leftSelector(lib.impl, lib.j) = lib.j \div 16
        /\ lib.pc = "done" =>
               /\ \E v \in Vectors : v.data = lib.data /\ v.digest = bytesToHex(lib.result.value)
               /\ nobleRipemd160(lib.data) = ripemd160(lib.data)
\* ============================================ BitcoinSigner.signTransaction
\* SHA-256 is the platform's (crypto.subtle.digest) and secp256k1 is a library
\* that is not part of the sources; in their place stand functions of the same
\* shape: 32 bytes that depend on every byte of the data and on its place, a
\* public key of 33 bytes and two numbers r and s of 32 bytes.
RECURSIVE Sum(_)
Sum(numbers) ==
    IF Len(numbers) = 0 THEN 0
    ELSE IF Len(numbers) = 1 THEN numbers[1]
    ELSE Sum(SubSeq(numbers, 1, Len(numbers) \div 2))
             + Sum(SubSeq(numbers, Len(numbers) \div 2 + 1, Len(numbers)))
sha256(data) ==
    Array([k \in 1..32 |->
              (Sum([i \in 1..Len(data) |->
                       (((i * i * (k + 1) + 31 * i + k) % 997) * (data[i] + 1)) % 256]) + k) % 256])
doubleSha256(data) == sha256(sha256(data))
\* SHA-256 and then BitcoinSigner.ripemd160
hash160(data) == ripemd160(sha256(data))
\* nobleSecp256k1.getPublicKey(privateKeyBytes, true) takes a key of 32 bytes
validKey(privateKeyBytes) == Len(privateKeyBytes) = 32
getPublicKey(privateKeyBytes) == <<2>> \o sha256(privateKeyBytes)
\* nobleSecp256k1.sign(messageHash, privateKeyBytes, {canonical, der: false})
sign(messageHash, privateKeyBytes) ==
    [r |-> sha256(privateKeyBytes \o messageHash),
     s |-> [sha256(messageHash \o privateKeyBytes) EXCEPT ![1] = @ % 128]]

\* value.toString(16) as bytes has no leading zero byte, and 0 is one byte
RECURSIVE noLeadingZeros(_)
noLeadingZeros(bytes) ==
    IF Len(bytes) > 1 /\ bytes[1] = 0 THEN noLeadingZeros(Tail(bytes)) ELSE bytes
encodeInteger(value) ==
    LET bytes == noLeadingZeros(value)
        intBytes == IF bytes[1] >= 128 THEN <<0>> \o bytes ELSE bytes
    IN  <<2, Len(intBytes)>> \o intBytes
encodeDER(r, s) ==
    <<48, Len(encodeInteger(r)) + Len(encodeInteger(s))>> \o encodeInteger(r) \o encodeInteger(s)
signECDSA(privateKeyBytes, messageHash) ==
    encodeDER(sign(messageHash, privateKeyBytes).r, sign(messageHash, privateKeyBytes).s)

createP2PKHScript(publicKeyHash) == <<118, 169, 20>> \o publicKeyHash \o <<136, 172>>
createScriptSig(signature, publicKey) ==
    <<Len(signature) % 256>> \o signature \o <<Len(publicKey) % 256>> \o publicKey

\* variant: the bytes that are hashed keep the script every other input has
preimageWithScripts(tx, inputIndex, scriptPubKey) ==
    uint32ToBytes(tx.version)
        \o <<Len(tx.inputs) % 256>>
        \o Concat([i \in 1..Len(tx.inputs) |->
               tx.inputs[i].hash \o uint32ToBytes(tx.inputs[i].index)
                   \o (IF i - 1 = inputIndex THEN <<Len(scriptPubKey) % 256>> \o scriptPubKey
                       ELSE <<Len(tx.inputs[i].script) % 256>> \o tx.inputs[i].script)
                   \o uint32ToBytes(tx.inputs[i].sequence)])
        \o <<Len(tx.outputs) % 256>>
        \o Concat([i \in 1..Len(tx.outputs) |-> serializeOutput(tx.outputs[i])])
        \o uint32ToBytes(tx.locktime)
        \o uint32ToBytes(UInt32(0, 1))
\* the bytes that createSignatureHash puts together and hashes
preimage(tx, inputIndex, scriptPubKey) ==
    uint32ToBytes(tx.version)
        \o <<Len(tx.inputs) % 256>>
        \o Concat([i \in 1..Len(tx.inputs) |->
               tx.inputs[i].hash \o uint32ToBytes(tx.inputs[i].index)
                   \o (IF i - 1 = inputIndex THEN <<Len(scriptPubKey) % 256>> \o scriptPubKey
                       ELSE <<0>>)
                   \o uint32ToBytes(tx.inputs[i].sequence)])
        \o <<Len(tx.outputs) % 256>>
        \o Concat([i \in 1..Len(tx.outputs) |-> serializeOutput(tx.outputs[i])])
        \o uint32ToBytes(tx.locktime)
        \o uint32ToBytes(UInt32(0, 1))
createSignatureHash(tx, inputIndex, scriptPubKey) ==
    doubleSha256(preimage(tx, inputIndex, scriptPubKey))

\* variant: signing an input resets its sequence as well
withScriptAndSequence(input, scriptSig) ==
    [input EXCEPT !.script = scriptSig, !.sequence = UInt32(65535, 65535)]
\* tx.inputs[inputIndex].script = scriptSig
withScript(input, scriptSig) == [input EXCEPT !.script = scriptSig]
\* what signInput works out for input inputIndex of tx
signInput(tx, inputIndex, privateKeyBytes) ==
    LET publicKey == getPublicKey(privateKeyBytes)
        scriptPubKey == createP2PKHScript(hash160(publicKey))
        sigHash == createSignatureHash(tx, inputIndex, scriptPubKey)
        signature == signECDSA(privateKeyBytes, sigHash)
    IN  [scriptPubKey |-> scriptPubKey, sigHash |-> sigHash,
         scriptSig |-> createScriptSig(signature \o <<1>>, publicKey)]

\* A call of signTransaction: decodeWIF runs as above, result is what it gave;
\* tx is the parsed transaction, next the i of the loop over the inputs, signed
\* the calls of signInput so far, signedTx the outcome of the call.
SignCall(wif, unsignedTxHex) ==
    [fn |-> "signTransaction", wif |-> wif, i |-> 0, decoded |-> <<>>, result |-> NoResult,
     pc |-> "loop", unsignedTx |-> unsignedTxHex, tx |-> parseTransaction(""), next |-> 0,
     signed |-> <<>>, signedTx |-> NoResult]
\* the compressed WIF of the key 01 02 .. 20, a text that decodes to no byte and
\* a text with a character outside the alphabet
SignWifs == {"KwFfpDsaF7yxCELuyrH9gP5XL7TAt5b9HPWC1xCQbmrxvhJgMQHb", "1", "0"}
\* whole texts, and texts that end in the first input
SignCuts == {30, 2 * MaxDigits}
InitSign ==
    /\ AtRest
    /\ \E wif \in SignWifs, tx \in Transactions, k \in SignCuts :
          lib = SignCall(wif, SubSeq(serializeTransaction(tx), 1,
                                     IF k < Len(serializeTransaction(tx)) THEN k
                                     ELSE Len(serializeTransaction(tx))))

\* decodeWIF has returned or thrown; parseTransaction
signTransactionParse ==
    /\ lib.fn = "signTransaction" /\ lib.pc = "decoded"
    /\ IF lib.result.threw
       THEN lib' = [lib EXCEPT !.signedTx = Threw(lib.result.error), !.pc = "done"]
       ELSE lib' = [lib EXCEPT !.tx = parseTransaction(lib.unsignedTx), !.next = 0, !.pc = "sign"]
    /\ UNCHANGED rest
\* await this.signInput(tx, i, privateKeyHex, privateKeyBytes)
signInputCall ==
    /\ lib.fn = "signTransaction" /\ lib.pc = "sign"
    /\ lib.next < Len(lib.tx.inputs)
    /\ IF ~validKey(lib.result.value)
       THEN lib' = [lib EXCEPT !.signedTx = Threw("nobleSecp256k1.getPublicKey"), !.pc = "done"]
       ELSE LET made == signInput(lib.tx, lib.next, lib.result.value)
            IN  lib' = [lib EXCEPT !.tx.inputs[lib.next + 1] = withScript(@, made.scriptSig),
                                   !.next = @ + 1,
                                   !.signed = Append(@, [index |-> lib.next,
                                                         key |-> lib.result.value,
                                                         scriptPubKey |-> made.scriptPubKey,
                                                         sigHash |-> made.sigHash])]
    /\ UNCHANGED rest
signTransactionReturn ==
    /\ lib.fn = "signTransaction" /\ lib.pc = "sign"
    /\ lib.next >= Len(lib.tx.inputs)
    /\ lib' = [lib EXCEPT !.signedTx = Returned(serializeTransaction(lib.tx)), !.pc = "done"]
    /\ UNCHANGED rest

NextSign ==
    \/ decodeWIFChar
    \/ decodeWIFReturn
    \/ signTransactionParse
    \/ signInputCall
    \/ signTransactionReturn

SpecSign == InitSign /\ [][NextSign]_vars

Parsed == lib.fn = "signTransaction" /\ (lib.pc = "sign" \/ (lib.pc = "done" /\ ~lib.signedTx.threw))

\* C36: signTransaction signs every input once, in increasing order of index and
\* with the one key, and changes only the script of an input: version, locktime,
\* the inputs' number, order, previous hash, previous index and sequence, and the
\* outputs of the returned transaction are those of the parsed unsigned one.
C36_SignsEachInputOnce ==
    Parsed =>
        LET unsigned == parseTransaction(lib.unsignedTx)
        IN  /\ lib.tx.version = unsigned.version /\ lib.tx.locktime = unsigned.locktime
            /\ lib.tx.outputs = unsigned.outputs
            /\ Len(lib.tx.inputs) = Len(unsigned.inputs)
            /\ \A k \in 1..Len(lib.tx.inputs) :
                   /\ lib.tx.inputs[k].hash = unsigned.inputs[k].hash
                   /\ lib.tx.inputs[k].index = unsigned.inputs[k].index
                   /\ lib.tx.inputs[k].sequence = unsigned.inputs[k].sequence
                   /\ k > lib.next => lib.tx.inputs[k].script = unsigned.inputs[k].script
            /\ Len(lib.signed) = lib.next
            /\ \A k \in 1..Len(lib.signed) :
                   /\ lib.signed[k].index = k - 1
                   /\ lib.signed[k].key = lib.result.value
            /\ lib.pc = "done" =>
                   /\ lib.next = Len(unsigned.inputs)
                   /\ lib.signedTx.value = serializeTransaction(lib.tx)

C36_Witness ==
    /\ lib.fn = "signTransaction" /\ lib.pc = "done" /\ ~lib.signedTx.threw
    /\ Len(lib.signed) = 2
    /\ parseTransaction(lib.unsignedTx).inputs[1].script # <<>>
    /\ lib.tx.inputs[1].sequence = UInt32(0, 0)
    /\ lib.tx.inputs[1].script # lib.tx.inputs[2].script

\* the unsigned transaction with input inputIndex's script replaced by
\* scriptPubKey and every other input's script emptied
blanked(tx, inputIndex, scriptPubKey) ==
    [tx EXCEPT !.inputs = [i \in 1..Len(tx.inputs) |->
                              [tx.inputs[i] EXCEPT !.script = IF i - 1 = inputIndex THEN scriptPubKey
                                                              ELSE <<>>]]]
P2PKH == createP2PKHScript([k \in 1..20 |-> k])

\* C37: the bytes hashed for input i are the serialization of the transaction
\* with input i's script replaced by the scriptPubKey and every other input's
\* script of length 0, followed by the word 1 little-endian; so they do not
\* depend on the script any input has at the time, and the signature hash of an
\* input is the same whatever was signed before it.
C37_Preimage ==
    Parsed =>
        LET unsigned == parseTransaction(lib.unsignedTx)
        IN  /\ \A k \in 1..Len(lib.tx.inputs) :
                   /\ preimage(lib.tx, k - 1, P2PKH) =
                          hexToBytes(serializeTransaction(blanked(unsigned, k - 1, P2PKH)))
                              \o <<1, 0, 0, 0>>
                   /\ preimage(lib.tx, k - 1, P2PKH) = preimage(unsigned, k - 1, P2PKH)
            /\ \A k \in 1..Len(lib.signed) :
                   lib.signed[k].sigHash =
                       createSignatureHash(unsigned, k - 1, lib.signed[k].scriptPubKey)

C37_Witness ==
    /\ lib.fn = "signTransaction" /\ lib.pc = "sign"
    /\ lib.next = 1 /\ Len(lib.tx.inputs) = 2
    /\ Len(lib.tx.inputs[1].script) > 100
    /\ parseTransaction(lib.unsignedTx).inputs[2].script # <<>>
\* =============================================================== Encryption
\* A string is the sequence of its UTF-16 code units.  PBKDF2 and AES-GCM are the
\* platform's; in their place stand a key of 32 bytes that depends on the bytes
\* of the password and on the salt, a ciphertext as long as the data that the
\* key and the nonce determine and from which they give the data back, and a tag
\* of 16 bytes after it that depends on key, nonce and ciphertext.
MaxUnits == 2
isHigh(unit) == unit >= 55296 /\ unit <= 56319
isLow(unit) == unit >= 56320 /\ unit <= 57343
utf8(point) ==
    IF point < 128 THEN <<point>>
    ELSE IF point < 2048 THEN <<192 + point \div 64, 128 + (point % 64)>>
    ELSE IF point < 65536
         THEN <<224 + point \div 4096, 128 + ((point \div 64) % 64), 128 + (point % 64)>>
    ELSE <<240 + point \div 262144, 128 + ((point \div 4096) % 64),
           128 + ((point \div 64) % 64), 128 + (point % 64)>>
\* new TextEncoder().encode(text): a surrogate without its partner becomes U+FFFD
TextEncoderEncode(text) ==
    Concat([i \in 1..Len(text) |->
        IF isHigh(text[i]) /\ i < Len(text) /\ isLow(text[i + 1])
        THEN utf8(65536 + (text[i] - 55296) * 1024 + (text[i + 1] - 56320))
        ELSE IF isLow(text[i]) /\ i > 1 /\ isHigh(text[i - 1]) THEN <<>>
        ELSE IF isHigh(text[i]) \/ isLow(text[i]) THEN utf8(65533)
        ELSE utf8(text[i])])

isTrail(bytes, k) == k <= Len(bytes) /\ bytes[k] >= 128 /\ bytes[k] < 192
RECURSIVE decodeUtf8(_)
decodeUtf8(bytes) ==
    IF bytes = <<>> THEN <<>>
    ELSE IF bytes[1] < 128 THEN <<bytes[1]>> \o decodeUtf8(Tail(bytes))
    ELSE IF bytes[1] >= 194 /\ bytes[1] < 224 /\ isTrail(bytes, 2)
         THEN <<(bytes[1] - 192) * 64 + (bytes[2] - 128)>> \o decodeUtf8(SubSeq(bytes, 3, Len(bytes)))
    ELSE IF bytes[1] >= 224 /\ bytes[1] < 240 /\ isTrail(bytes, 2) /\ isTrail(bytes, 3)
         THEN <<(bytes[1] - 224) * 4096 + (bytes[2] - 128) * 64 + (bytes[3] - 128)>>
                  \o decodeUtf8(SubSeq(bytes, 4, Len(bytes)))
    ELSE IF bytes[1] >= 240 /\ bytes[1] < 245 /\ isTrail(bytes, 2) /\ isTrail(bytes, 3)
                /\ isTrail(bytes, 4)
         THEN LET point == (bytes[1] - 240) * 262144 + (bytes[2] - 128) * 4096
                               + (bytes[3] - 128) * 64 + (bytes[4] - 128) - 65536
              IN  <<55296 + point \div 1024, 56320 + (point % 1024)>>
                      \o decodeUtf8(SubSeq(bytes, 5, Len(bytes)))
    ELSE <<65533>> \o decodeUtf8(Tail(bytes))
\* new TextDecoder().decode(buffer): a byte order mark at the start is dropped
TextDecoderDecode(bytes) ==
    IF Len(bytes) >= 3 /\ SubSeq(bytes, 1, 3) = <<239, 187, 191>>
    THEN decodeUtf8(SubSeq(bytes, 4, Len(bytes)))
    ELSE decodeUtf8(bytes)

Base64Chars == "ABCDEFGHIJKLMNOPQRSTUVWXYZabcdefghijklmnopqrstuvwxyz0123456789+/"
Base64Char(v) == SubSeq(Base64Chars, v + 1, v + 1)
Base64Value(c) == CHOOSE v \in 0..63 : Base64Char(v) = c
\* btoa of the bytes
arrayBufferToBase64(bytes) ==
    Join([g \in 1..((Len(bytes) + 2) \div 3) |->
        LET b1 == bytes[3 * g - 2]
            b2 == IF 3 * g - 1 <= Len(bytes) THEN bytes[3 * g - 1] ELSE 0
            b3 == IF 3 * g <= Len(bytes) THEN bytes[3 * g] ELSE 0
        IN  Base64Char(b1 \div 4) \o Base64Char((b1 % 4) * 16 + b2 \div 16)
                \o (IF 3 * g - 1 <= Len(bytes) THEN Base64Char((b2 % 16) * 4 + b3 \div 64) ELSE "=")
                \o (IF 3 * g <= Len(bytes) THEN Base64Char(b3 % 64) ELSE "=")])
\* atob of a text that btoa made
base64ToArrayBuffer(base64) ==
    Concat([g \in 1..(Len(base64) \div 4) |->
        LET c(k) == SubSeq(base64, 4 * g - 4 + k, 4 * g - 4 + k)
            v(k) == IF c(k) = "=" THEN 0 ELSE Base64Value(c(k))
        IN  <<v(1) * 4 + v(2) \div 16>>
                \o (IF c(3) = "=" THEN <<>> ELSE <<(v(2) % 16) * 16 + v(3) \div 4>>)
                \o (IF c(4) = "=" THEN <<>> ELSE <<(v(3) % 4) * 64 + v(4)>>)])

\* importKey and deriveKey: PBKDF2 of the password's bytes and the salt
deriveKey(passwordBuffer, salt) == sha256(salt \o passwordBuffer)
\* for n bytes
keystream(key, iv, n) ==
    Concat([block \in 1..((n + 31) \div 32) |-> sha256(key \o iv \o <<block>>)])
tag(key, iv, ciphertext) == SubSeq(sha256(iv \o ciphertext \o key), 1, 16)
\* crypto.subtle.encrypt({name: 'AES-GCM', iv}, key, dataBuffer)
subtleEncrypt(key, iv, dataBuffer) ==
    LET stream == keystream(key, iv, Len(dataBuffer))
        ciphertext == Array([k \in 1..Len(dataBuffer) |-> (dataBuffer[k] + stream[k]) % 256])
    IN  ciphertext \o tag(key, iv, ciphertext)
\* crypto.subtle.decrypt({name: 'AES-GCM', iv}, key, data): throws unless the tag
\* is the one of key, iv and ciphertext
subtleDecrypt(key, iv, data) ==
    LET ciphertext == SubSeq(data, 1, Len(data) - 16)
        stream == keystream(key, iv, Len(ciphertext))
    IN  IF Len(data) < 16 \/ SubSeq(data, Len(data) - 15, Len(data)) # tag(key, iv, ciphertext)
        THEN Threw("OperationError")
        ELSE Returned(Array([k \in 1..Len(ciphertext) |-> (ciphertext[k] + 256 - stream[k]) % 256]))

\* Encryption.encrypt(data, password) with the salt and the nonce that
\* crypto.getRandomValues gave: what is written where, and the text returned
encryptWith(data, password, salt, iv) ==
    LET key == deriveKey(TextEncoderEncode(password), salt)
        encrypted == subtleEncrypt(key, iv, TextEncoderEncode(data))
    IN  [salt |-> salt, iv |-> iv, data |-> encrypted,
         base64 |-> arrayBufferToBase64(salt \o iv \o encrypted)]
\* Encryption.decrypt(encryptedBase64, password): what is read where, and the
\* outcome
decryptWith(encryptedBase64, password) ==
    LET encrypted == base64ToArrayBuffer(encryptedBase64)
        salt == Slice(encrypted, 0, 16)
        iv == Slice(encrypted, 16, 28)
        data == Slice(encrypted, 28, Len(encrypted))
        decrypted == subtleDecrypt(deriveKey(TextEncoderEncode(password), salt), iv, data)
    IN  [salt |-> salt, iv |-> iv, data |-> data,
         result |-> IF decrypted.threw THEN Threw("Incorrect password or corrupted data")
                    ELSE Returned(TextDecoderDecode(decrypted.value))]

\* A, e with acute accent, the euro sign, U+FEFF, and the two halves of U+1F600
Units == {65, 233, 8364, 65279, 55357, 56832}
PlainTexts == SeqsUpTo(Units, MaxUnits)
\* two passwords of letters and digits, and two that differ in a surrogate
\* without partner
EncryptionPasswords == {<<112, 119, 49>>, <<112, 119, 50>>, <<112, 55357>>, <<112, 55358>>}
Salts == {[k \in 1..16 |-> 1], [k \in 1..16 |-> 16 * k - 1]}
Ivs == {[k \in 1..12 |-> 0], [k \in 1..12 |-> 255 - k]}
NoBytes == [salt |-> <<>>, iv |-> <<>>, data |-> <<>>]

InitEncryption ==
    /\ AtRest
    /\ \E data \in PlainTexts, password \in EncryptionPasswords :
          lib = [fn |-> "Encryption", data |-> data, password |-> password, base64 |-> "",
                 wrote |-> NoBytes, with |-> <<>>, read |-> NoBytes, result |-> NoResult,
                 pc |-> "encrypt"]
encryptCall(salt, iv) ==
    /\ lib.fn = "Encryption" /\ lib.pc = "encrypt"
    /\ LET made == encryptWith(lib.data, lib.password, salt, iv)
       IN  lib' = [lib EXCEPT !.base64 = made.base64,
                              !.wrote = [salt |-> made.salt, iv |-> made.iv, data |-> made.data],
                              !.pc = "decrypt"]
    /\ UNCHANGED rest
decryptCall(password) ==
    /\ lib.fn = "Encryption" /\ lib.pc = "decrypt"
    /\ LET got == decryptWith(lib.base64, password)
       IN  lib' = [lib EXCEPT !.with = password,
                              !.read = [salt |-> got.salt, iv |-> got.iv, data |-> got.data],
                              !.result = got.result, !.pc = "done"]
    /\ UNCHANGED rest

NextEncryption ==
    \/ \E salt \in Salts, iv \in Ivs : encryptCall(salt, iv)
    \/ \E password \in EncryptionPasswords : decryptCall(password)

SpecEncryption == InitEncryption /\ [][NextEncryption]_vars

\* C32: decrypt gives back every plaintext under the password it was encrypted
\* with, fails with 'Incorrect password or corrupted data' under any other
\* password, and reads salt, nonce and ciphertext at the offsets 0..16, 16..28
\* and 28..end at which encrypt wrote them.
C32_RoundTrip ==
    (lib.fn = "Encryption" /\ lib.pc = "done") =>
        /\ lib.with = lib.password => lib.result = Returned(lib.data)
        /\ lib.with # lib.password => lib.result = Threw("Incorrect password or corrupted data")
        /\ lib.read = lib.wrote
        /\ Len(lib.read.salt) = 16 /\ Len(lib.read.iv) = 12
====
